---- MODULE Spec2Model ----
(***************************************************************************)
(* Model of the fake-streaming emulator of the proxy                       *)
(* (src/src/streaming_utils.py, fake_stream_generator_from_non_stream)     *)
(* together with the tasks it runs with on the asyncio event loop:         *)
(*   - non_stream_task, the upstream fetch task created by the endpoint    *)
(*     (src/src/main.py, chat_completions_proxy_endpoint);                 *)
(*   - background_executor_task, running _execute_and_signal_completion;   *)
(*   - the consumer of the async generator (the streaming response).       *)
(*                                                                         *)
(* The event loop is single threaded and cooperative: the code between two *)
(* suspension points (await, yield) runs atomically, so there is one       *)
(* action per resumption of a coroutine.  Time is counted in ticks of half *)
(* a second; a step of the event loop takes no time, so the clock advances *)
(* only when no step is ready to run.                                      *)
(*                                                                         *)
(* Further state machines follow the emulator:                             *)
(*   - ProxySpec, one client request through the endpoint and the client   *)
(*     of the upstream API (src/src/main.py, src/src/openai_client.py,     *)
(*     src/src/conversion_utils.py), with texts as token sequences and the *)
(*     two regex processors of the code as operators;                      *)
(*   - StoreSpec, the template store of src/src/template_handler.py with   *)
(*     its files, and requests that prepare and answer concurrently;       *)
(*   - AccessSpec, the same store when the permission to read a template   *)
(*     file may be taken away;                                             *)
(*   - PrepSpec, _prepare_openai_messages of src/src/template_handler.py   *)
(*     on one request, with messages, blueprints and contents as records;  *)
(*   - ExpandSpec, the variable expander of src/src/template_handler.py    *)
(*     (_process_dice_rolls, _process_random_choices) on one string, with  *)
(*     every die and every choice drawn as the random module may draw it.  *)
(* Each specification keeps the variables of the others at rest.           *)
(***************************************************************************)
EXTENDS Integers, Sequences, FiniteSets, TLC

(***************************************************************************)
(* Bounds                                                                  *)
(***************************************************************************)
\* latest instant (in ticks) at which the upstream call may resolve
MaxT == 5
\* ticks the clock may run past MaxT (slow consumers)
Slack == 2
MaxTime == MaxT + Slack
\* ticks per second
TicksPerSecond == 2
\* largest heartbeat interval, in seconds (config.py: an integer >= 1)
MaxIntervalSeconds == 2

(***************************************************************************)
(* Values                                                                  *)
(***************************************************************************)
\* heartbeat_interval values, in ticks
HeartbeatIntervals == {s * TicksPerSecond : s \in 1..MaxIntervalSeconds}

Roles == {"assistant", "absent"}
Contents == {"null", "text"}
StatusCodes == {429, 500}

\* Python None, the initial value of both slots
PyNone == [type |-> "None", shape |-> "-", role |-> "-", content |-> "-",
           finish |-> FALSE, status |-> 0]

\* a chat completion with at least one choice whose first choice is a dict
WellFormedResults ==
    {[type |-> "result", shape |-> "wellformed", role |-> r, content |-> c,
      finish |-> f, status |-> 0] : r \in Roles, c \in Contents, f \in BOOLEAN}

\* a dict without usable choices, a first choice that is not a dict, None
MalformedResults ==
    {[type |-> "result", shape |-> s, role |-> "-", content |-> "-",
      finish |-> FALSE, status |-> 0] : s \in {"nochoices", "badchoice", "none"}}

HTTPExceptions ==
    {[type |-> "HTTPException", shape |-> "-", role |-> "-", content |-> "-",
      finish |-> FALSE, status |-> c] : c \in StatusCodes}

OtherException == [type |-> "Exception", shape |-> "-", role |-> "-",
                   content |-> "-", finish |-> FALSE, status |-> 0]

CancelledError == [type |-> "CancelledError", shape |-> "-", role |-> "-",
                   content |-> "-", finish |-> FALSE, status |-> 0]

\* what the upstream call does when it is left to run until it resolves
Outcomes == WellFormedResults \cup MalformedResults \cup HTTPExceptions
                \cup {OtherException}

Frame(k, c) == [kind |-> k, code |-> c]
DoneFrame == Frame("DONE", 0)
HeartbeatFrame == Frame("heartbeat", 0)

ErrorKinds == {"api_error_in_fake_stream",
               "server_request_cancelled_in_fake_stream",
               "internal_task_error_in_fake_stream",
               "unknown_task_completion_state",
               "fake_stream_generator_unexpected_error"}
DeltaKinds == {"role", "content", "finish"}

(***************************************************************************)
(* State                                                                   *)
(***************************************************************************)
VARIABLES
    now,                      \* clock, in ticks
    heartbeat_interval,       \* settings.proxy.fake_streaming.heartbeat_interval
    taskPlan,                 \* outcome of the upstream call if it runs to its end
    taskT,                    \* instant at which the upstream call resolves
    non_stream_task,          \* "running" | "result" | "exception" | "cancelled"
    background_executor_task, \* "none" | "created" | "awaiting" | "done" | "cancelled"
    bgCancelRequested,        \* background_executor_task.cancel() was called
    task_completion_event,    \* asyncio.Event: is_set()
    wrapped_task_result,      \* _wrapped_task_result
    wrapped_task_exception,   \* _wrapped_task_exception
    genPc,                    \* where the generator is suspended
    deadline,                 \* instant at which the current wait_for times out
    toYield,                  \* frames of the body still to be yielded
    pendingExc,               \* exception in flight while finally runs
    consumer,                 \* state of the consumer of the generator
    frames,                   \* frames delivered to the consumer, in order
    cancelDelivered,          \* the consumer's cancellation reached the generator
    closeResult,              \* outcome of aclose(): "none" | "ok" | "RuntimeError"
    delayed                   \* the consumer let time pass before asking for a frame

VARIABLES
    client_requests_stream,   \* original_body.get("stream", False)
    fake_streaming_enabled,   \* settings.proxy.fake_streaming.enabled
    selected_regex_rules,     \* prepared_data["selected_regex_rules"]
    upstream,                 \* what the upstream API does with the call
    pxPc,                     \* where the handling of the request stands
    http_calls,               \* HTTP calls made to the upstream API so far
    response,                 \* HTTP response to a non-streaming client
    sse,                      \* frames delivered to a streaming client
    full_content,             \* full_content of execute_stream_openai_request
    upPos                     \* upstream data lines consumed so far

VARIABLES
    templateFile,             \* the template file of each path, on disk
    CACHED_PROMPT_BLUEPRINTS, \* _CACHED_PROMPT_BLUEPRINTS
    CACHED_REGEX_RULES,       \* _CACHED_REGEX_RULES
    LAST_TEMPLATE_MTIME,      \* _LAST_TEMPLATE_MTIME, 0 when the key is absent
    logged_not_found_paths,   \* _load_templates._logged_not_found_paths
    reqPc,                    \* each request: "new" | "prepared" | "answered",
                              \* or "raised" when its prepare call raised
    reqPrepared,              \* each request: what its prepare call returned
    reqApplied,               \* each request: the rules applied to its response,
                              \* and the rules the cache held at that time
    lastLoad,                 \* the latest _load_templates call (history)
    touched,                  \* paths whose file changed since their last load
    goodCached,               \* paths whose cache holds a successful load
    fileChanges               \* file changes so far

VARIABLES
    original_messages,        \* original_body.get("messages", [])
    selected_template_path,   \* selected_template_path
    processed_messages,       \* processed_messages, as built by step 4
    final_messages_step2,     \* the list after variable expansion and filter
    merged_messages,          \* result["messages"]
    prepPc                    \* "received" | "returned" ("none": no request)

VARIABLES
    content_val,              \* the string content handed to the expander
    content_after_dice,       \* what _process_dice_rolls returned
    content_after_random,     \* what _process_random_choices returned
    matchPos,                 \* re.sub: end of the latest match in its input
    replaced,                 \* re.sub: the output built so far
    expPc                     \* "dice" | "random" | "done" ("none": no content)

emuVars == <<now, heartbeat_interval, taskPlan, taskT, non_stream_task,
             background_executor_task, bgCancelRequested, task_completion_event,
             wrapped_task_result, wrapped_task_exception, genPc, deadline,
             toYield, pendingExc, consumer, frames, cancelDelivered,
             closeResult, delayed>>
proxyVars == <<client_requests_stream, fake_streaming_enabled,
               selected_regex_rules, upstream, pxPc, http_calls, response, sse,
               full_content, upPos>>
storeVars == <<templateFile, CACHED_PROMPT_BLUEPRINTS, CACHED_REGEX_RULES,
               LAST_TEMPLATE_MTIME, logged_not_found_paths, reqPc, reqPrepared,
               reqApplied, lastLoad, touched, goodCached, fileChanges>>
prepVars == <<original_messages, selected_template_path, processed_messages,
              final_messages_step2, merged_messages, prepPc>>
expVars == <<content_val, content_after_dice, content_after_random, matchPos,
             replaced, expPc>>
vars == <<emuVars, proxyVars, storeVars, prepVars, expVars>>

\* no emulated stream is open
EmulatorParked ==
    /\ now = 0
    /\ heartbeat_interval = TicksPerSecond
    /\ taskPlan = PyNone
    /\ taskT = 0
    /\ non_stream_task = "none"
    /\ background_executor_task = "none"
    /\ bgCancelRequested = FALSE
    /\ task_completion_event = FALSE
    /\ wrapped_task_result = PyNone
    /\ wrapped_task_exception = PyNone
    /\ genPc = "none"
    /\ deadline = 0
    /\ toYield = <<>>
    /\ pendingExc = "none"
    /\ consumer = "none"
    /\ frames = <<>>
    /\ cancelDelivered = FALSE
    /\ closeResult = "none"
    /\ delayed = FALSE

\* no request is in the endpoint
ProxyParked ==
    /\ client_requests_stream = FALSE
    /\ fake_streaming_enabled = FALSE
    /\ selected_regex_rules = <<>>
    /\ upstream = "none"
    /\ pxPc = "none"
    /\ http_calls = 0
    /\ response = "none"
    /\ sse = <<>>
    /\ full_content = <<>>
    /\ upPos = 0

\* no request is in _prepare_openai_messages
PrepParked ==
    /\ original_messages = <<>>
    /\ selected_template_path = "none"
    /\ processed_messages = <<>>
    /\ final_messages_step2 = <<>>
    /\ merged_messages = <<>>
    /\ prepPc = "none"

\* no content is in the variable expander
ExpandParked ==
    /\ content_val = <<>>
    /\ content_after_dice = <<>>
    /\ content_after_random = <<>>
    /\ matchPos = 0
    /\ replaced = <<>>
    /\ expPc = "none"

\* the template store is left alone
StoreParked ==
    /\ templateFile = "none"
    /\ CACHED_PROMPT_BLUEPRINTS = "none"
    /\ CACHED_REGEX_RULES = "none"
    /\ LAST_TEMPLATE_MTIME = "none"
    /\ logged_not_found_paths = {}
    /\ reqPc = "none"
    /\ reqPrepared = "none"
    /\ reqApplied = "none"
    /\ lastLoad = "none"
    /\ touched = {}
    /\ goodCached = {}
    /\ fileChanges = 0

(***************************************************************************)
(* Pure parts of the generator and of its background unit                  *)
(***************************************************************************)
\* variant: the cleanup takes the background task for finished
BgDoneAlways(s) == TRUE

\* background_executor_task.done()
BgDone(s) == s \in {"done", "cancelled"}

\* variant: the timeout runs one tick longer than the interval
HeartbeatDeadlineLate(t, h) == t + h + 1

\* timeout of asyncio.wait_for(task_completion_event.wait(), heartbeat_interval)
\* started at instant t
HeartbeatDeadline(t, h) == t + h

\* what awaiting asyncio.shield(non_stream_task) gives the background unit:
\* a cancellation of the background unit itself wins over the task's outcome
ShieldOutcome(cancelReq, task, plan) ==
    IF cancelReq \/ task = "cancelled" THEN CancelledError ELSE plan

\* variant: the event is set before the outcome is stored, the value is lost
SlotResultLost(o) == PyNone

\* try/except of _execute_and_signal_completion: the value kept in
\* _wrapped_task_result
SlotResult(o) ==
    IF o.type = "result" /\ o.shape # "none" THEN o ELSE PyNone

\* ... and the exception kept in _wrapped_task_exception
SlotException(o) ==
    IF o.type = "result" THEN PyNone ELSE o

\* variant: the event is set at the end of the try body, not in finally
SignalOnSuccessOnly(o) == o.type = "result"

\* finally: task_completion_event.set(), whatever the outcome
SignalCompletion(o) == TRUE

\* variant: no case for asyncio.CancelledError
ErrorFrameNoCancelCase(exc) ==
    IF exc.type = "HTTPException"
    THEN Frame("api_error_in_fake_stream", exc.status)
    ELSE Frame("internal_task_error_in_fake_stream", 0)

\* the SSE error frame built from _wrapped_task_exception
ErrorFrame(exc) ==
    IF exc.type = "HTTPException"
    THEN Frame("api_error_in_fake_stream", exc.status)
    ELSE IF exc.type = "CancelledError"
         THEN Frame("server_request_cancelled_in_fake_stream", 0)
         ELSE Frame("internal_task_error_in_fake_stream", 0)

\* variant: the body yields [DONE] after the deltas, and finally yields it again
ResultFramesThenDone(res) ==
    (IF res.role # "absent" THEN <<Frame("role", 0)>> ELSE <<>>)
    \o (IF res.content # "null" THEN <<Frame("content", 0)>> ELSE <<>>)
    \o (IF res.finish THEN <<Frame("finish", 0)>> ELSE <<>>)
    \o <<DoneFrame>>

\* variant: the content delta is yielded before the role delta
ResultFramesContentFirst(res) ==
    (IF res.content # "null" THEN <<Frame("content", 0)>> ELSE <<>>)
    \o (IF res.role # "absent" THEN <<Frame("role", 0)>> ELSE <<>>)
    \o (IF res.finish THEN <<Frame("finish", 0)>> ELSE <<>>)

\* the delta frames of a chat completion: role, content, finish reason
ResultFrames(res) ==
    (IF res.role # "absent" THEN <<Frame("role", 0)>> ELSE <<>>)
    \o (IF res.content # "null" THEN <<Frame("content", 0)>> ELSE <<>>)
    \o (IF res.finish THEN <<Frame("finish", 0)>> ELSE <<>>)

\* variant: "if result is not None" instead of "elif": after the error frame
\* the result branches run as well
BodyFramesIfIf(exc, res) ==
    (IF exc # PyNone THEN <<ErrorFrame(exc)>> ELSE <<>>)
    \o (IF res # PyNone
        THEN IF res.shape = "badchoice"
             THEN <<Frame("fake_stream_generator_unexpected_error", 0)>>
             ELSE IF res.shape = "wellformed"
                  THEN ResultFrames(res)
                  ELSE <<Frame("raw", 0)>>
        ELSE <<Frame("unknown_task_completion_state", 0)>>)

\* the frames the body of the generator yields after the heartbeat loop,
\* before its finally clause runs
BodyFrames(exc, res) ==
    IF exc # PyNone
    THEN <<ErrorFrame(exc)>>
    ELSE IF res # PyNone
         THEN IF res.shape = "badchoice"
              \* choices[0].get raises AttributeError, caught by except Exception
              THEN <<Frame("fake_stream_generator_unexpected_error", 0)>>
              ELSE IF res.shape = "wellformed"
                   THEN ResultFrames(res)
                   ELSE <<Frame("raw", 0)>>
         ELSE <<Frame("unknown_task_completion_state", 0)>>

(***************************************************************************)
(* Initial state: the endpoint has created non_stream_task and handed the  *)
(* generator to the streaming response; the generator has not started.     *)
(***************************************************************************)
Init ==
    /\ now = 0
    /\ heartbeat_interval \in HeartbeatIntervals
    /\ taskPlan \in Outcomes
    /\ taskT \in 0..MaxT
    /\ non_stream_task = "running"
    /\ background_executor_task = "none"
    /\ bgCancelRequested = FALSE
    /\ task_completion_event = FALSE
    /\ wrapped_task_result = PyNone
    /\ wrapped_task_exception = PyNone
    /\ genPc = "start"
    /\ deadline = 0
    /\ toYield = <<>>
    /\ pendingExc = "none"
    /\ consumer = "idle"
    /\ frames = <<>>
    /\ cancelDelivered = FALSE
    /\ closeResult = "none"
    /\ delayed = FALSE
    /\ ProxyParked
    /\ StoreParked
    /\ PrepParked
    /\ ExpandParked

envVars == <<now, heartbeat_interval, taskPlan, taskT, non_stream_task, delayed>>
bgVars == <<background_executor_task, task_completion_event,
            wrapped_task_result, wrapped_task_exception>>

(***************************************************************************)
(* Fragments of the generator, used by the actions below                   *)
(***************************************************************************)
\* yield f from the body; rest is what the body still has to yield
YieldFrame(f, rest) ==
    /\ frames' = Append(frames, f)
    /\ toYield' = rest
    /\ genPc' = "emitting"
    /\ consumer' = "idle"
    /\ UNCHANGED <<pendingExc, closeResult, bgCancelRequested, deadline>>

\* lines 261-264: yield the [DONE] frame from the finally clause, with exc in
\* flight.  A yield while GeneratorExit is in flight makes aclose() raise
\* RuntimeError("async generator ignored GeneratorExit"); the frame is lost.
YieldDone(exc) ==
    /\ pendingExc' = exc
    /\ IF exc = "GeneratorExit"
       THEN /\ genPc' = "ignored_exit"
            /\ closeResult' = "RuntimeError"
            /\ consumer' = "closed"
            /\ frames' = frames
       ELSE /\ genPc' = "y_done"
            /\ closeResult' = closeResult
            /\ consumer' = "idle"
            /\ frames' = Append(frames, DoneFrame)
    /\ UNCHANGED <<toYield, bgCancelRequested, deadline>>

\* cancel the background unit and await it, at line pc
CancelAndAwait(pc, exc) ==
    /\ bgCancelRequested' = TRUE
    /\ genPc' = pc
    /\ pendingExc' = exc
    /\ UNCHANGED <<frames, toYield, consumer, closeResult, deadline>>

\* lines 248-264: the finally clause
Finally(exc) ==
    IF ~BgDone(background_executor_task)
    THEN CancelAndAwait("await_bg_255", exc)
    ELSE YieldDone(exc)

\* lines 230-242: except asyncio.CancelledError of the outer try
OuterCancelHandler ==
    IF ~BgDone(background_executor_task)
    THEN CancelAndAwait("await_bg_237", "CancelledError")
    ELSE Finally("CancelledError")

\* lines 122-133: except asyncio.CancelledError inside the heartbeat loop
InnerCancelHandler ==
    IF ~BgDone(background_executor_task)
    THEN CancelAndAwait("await_bg_128", "CancelledError")
    ELSE OuterCancelHandler

\* yield the next frame of the body, or fall into the finally clause
Drain(q) ==
    IF q # <<>> THEN YieldFrame(Head(q), Tail(q)) ELSE Finally("none")

\* lines 135-228: the body after the heartbeat loop
RunBody == Drain(BodyFrames(wrapped_task_exception, wrapped_task_result))

\* line 104: suspend in wait_for until the event is set or the timeout expires
WaitForEvent ==
    /\ genPc' = "waiting"
    /\ deadline' = HeartbeatDeadline(now, heartbeat_interval)
    /\ consumer' = "requesting"
    /\ UNCHANGED <<frames, toYield, pendingExc, closeResult, bgCancelRequested>>


(***************************************************************************)
(* Actions                                                                 *)
(***************************************************************************)
\* The consumer asks for the first frame: the generator creates the
\* background task (line 96) and enters the heartbeat loop (lines 101-104).
GenStart ==
    /\ consumer = "idle"
    /\ genPc = "start"
    /\ background_executor_task' = "created"
    /\ IF ~task_completion_event THEN WaitForEvent ELSE RunBody
    /\ UNCHANGED <<task_completion_event, wrapped_task_result,
                   wrapped_task_exception, cancelDelivered>>
    /\ UNCHANGED envVars
    /\ UNCHANGED <<proxyVars, storeVars, prepVars, expVars>>

\* First step of the background task.  A task cancelled before its first
\* step never runs its body: it ends cancelled, nothing is written, the
\* event stays clear.  Otherwise it awaits shield(non_stream_task), which
\* does not suspend when the task is already done.
BgStart ==
    /\ background_executor_task = "created"
    /\ IF bgCancelRequested
       THEN /\ background_executor_task' = "cancelled"
            /\ UNCHANGED <<task_completion_event, wrapped_task_result,
                           wrapped_task_exception>>
       ELSE IF non_stream_task = "running"
            THEN /\ background_executor_task' = "awaiting"
                 /\ UNCHANGED <<task_completion_event, wrapped_task_result,
                                wrapped_task_exception>>
            ELSE LET o == ShieldOutcome(FALSE, non_stream_task, taskPlan) IN
                 /\ wrapped_task_result' = SlotResult(o)
                 /\ wrapped_task_exception' = SlotException(o)
                 /\ task_completion_event' = SignalCompletion(o)
                 /\ background_executor_task' = "done"
    /\ UNCHANGED <<genPc, deadline, toYield, pendingExc, consumer, frames,
                   cancelDelivered, closeResult, bgCancelRequested>>
    /\ UNCHANGED envVars
    /\ UNCHANGED <<proxyVars, storeVars, prepVars, expVars>>

\* The background task resumes from await asyncio.shield(non_stream_task)
\* (lines 80-93): it stores the outcome, sets the event and returns.
BgResume ==
    /\ background_executor_task = "awaiting"
    /\ bgCancelRequested \/ non_stream_task # "running"
    /\ LET o == ShieldOutcome(bgCancelRequested, non_stream_task, taskPlan) IN
       /\ wrapped_task_result' = SlotResult(o)
       /\ wrapped_task_exception' = SlotException(o)
       /\ task_completion_event' = SignalCompletion(o)
    /\ background_executor_task' = "done"
    /\ UNCHANGED <<genPc, deadline, toYield, pendingExc, consumer, frames,
                   cancelDelivered, closeResult, bgCancelRequested>>
    /\ UNCHANGED envVars
    /\ UNCHANGED <<proxyVars, storeVars, prepVars, expVars>>

\* The upstream call resolves, with a value or an exception.
UpstreamResolve ==
    /\ non_stream_task = "running"
    /\ now = taskT
    /\ non_stream_task' = IF taskPlan.type = "result" THEN "result" ELSE "exception"
    /\ UNCHANGED <<now, heartbeat_interval, taskPlan, taskT, delayed>>
    /\ UNCHANGED bgVars
    /\ UNCHANGED <<genPc, deadline, toYield, pendingExc, consumer, frames,
                   cancelDelivered, closeResult, bgCancelRequested>>
    /\ UNCHANGED <<proxyVars, storeVars, prepVars, expVars>>

\* Environment: something outside the generator cancels non_stream_task.
CancelUpstream ==
    /\ non_stream_task = "running"
    /\ non_stream_task' = "cancelled"
    /\ UNCHANGED <<now, heartbeat_interval, taskPlan, taskT, delayed>>
    /\ UNCHANGED bgVars
    /\ UNCHANGED <<genPc, deadline, toYield, pendingExc, consumer, frames,
                   cancelDelivered, closeResult, bgCancelRequested>>
    /\ UNCHANGED <<proxyVars, storeVars, prepVars, expVars>>

\* wait_for returns because the event is set (lines 104-106): break, then
\* the body after the loop runs up to its first yield.
WaitCompleted ==
    /\ genPc = "waiting"
    /\ task_completion_event
    /\ RunBody
    /\ UNCHANGED bgVars
    /\ UNCHANGED cancelDelivered
    /\ UNCHANGED envVars
    /\ UNCHANGED <<proxyVars, storeVars, prepVars, expVars>>

\* wait_for times out (lines 107-121): a heartbeat frame is yielded.  When
\* the event is set at the very instant of the timeout, either this action or
\* WaitCompleted may run: which of them wins depends on the event loop.
WaitTimeout ==
    /\ genPc = "waiting"
    /\ now >= deadline
    /\ frames' = Append(frames, HeartbeatFrame)
    /\ genPc' = "y_hb"
    /\ consumer' = "idle"
    /\ UNCHANGED <<toYield, pendingExc, closeResult, bgCancelRequested, deadline>>
    /\ UNCHANGED bgVars
    /\ UNCHANGED cancelDelivered
    /\ UNCHANGED envVars
    /\ UNCHANGED <<proxyVars, storeVars, prepVars, expVars>>

\* The consumer asks for the frame after a heartbeat: the loop condition of
\* line 101 is evaluated again.
ResumeAfterHeartbeat ==
    /\ consumer = "idle"
    /\ genPc = "y_hb"
    /\ IF ~task_completion_event THEN WaitForEvent ELSE RunBody
    /\ UNCHANGED bgVars
    /\ UNCHANGED cancelDelivered
    /\ UNCHANGED envVars
    /\ UNCHANGED <<proxyVars, storeVars, prepVars, expVars>>

\* The consumer asks for the frame after a frame of the body.
ResumeBody ==
    /\ consumer = "idle"
    /\ genPc = "emitting"
    /\ Drain(toYield)
    /\ UNCHANGED bgVars
    /\ UNCHANGED cancelDelivered
    /\ UNCHANGED envVars
    /\ UNCHANGED <<proxyVars, storeVars, prepVars, expVars>>

\* The consumer asks for the frame after [DONE]: the finally clause ends and
\* the exception in flight, if any, is raised; otherwise the generator returns.
ResumeAfterDone ==
    /\ consumer = "idle"
    /\ genPc = "y_done"
    /\ genPc' = "finished"
    /\ consumer' = IF pendingExc = "CancelledError" THEN "got_cancelled" ELSE "ended"
    /\ UNCHANGED <<frames, toYield, pendingExc, closeResult, bgCancelRequested,
                   deadline>>
    /\ UNCHANGED bgVars
    /\ UNCHANGED cancelDelivered
    /\ UNCHANGED envVars
    /\ UNCHANGED <<proxyVars, storeVars, prepVars, expVars>>

\* Environment: the consumer task is cancelled while it awaits the next
\* frame, the generator being suspended in wait_for: CancelledError is
\* raised at line 104.
CancelWhileWaiting ==
    /\ consumer = "requesting"
    /\ genPc = "waiting"
    /\ ~cancelDelivered
    /\ cancelDelivered' = TRUE
    /\ InnerCancelHandler
    /\ UNCHANGED bgVars
    /\ UNCHANGED envVars
    /\ UNCHANGED <<proxyVars, storeVars, prepVars, expVars>>

\* Environment: the consumer task is cancelled while it holds a frame (or
\* before it asked for one): the generator stays suspended where it is.
CancelWhileIdle ==
    /\ consumer = "idle"
    /\ genPc \in {"start", "y_hb", "emitting", "y_done"}
    /\ consumer' = "cancelled"
    /\ UNCHANGED <<genPc, deadline, toYield, pendingExc, frames,
                   cancelDelivered, closeResult, bgCancelRequested>>
    /\ UNCHANGED bgVars
    /\ UNCHANGED envVars
    /\ UNCHANGED <<proxyVars, storeVars, prepVars, expVars>>

\* The generator resumes from await background_executor_task (lines 128,
\* 237, 255), once that task has finished.
BgAwaited ==
    /\ genPc \in {"await_bg_128", "await_bg_237", "await_bg_255"}
    /\ background_executor_task \in {"done", "cancelled"}
    /\ IF genPc = "await_bg_128" THEN OuterCancelHandler
       ELSE IF genPc = "await_bg_237" THEN Finally("CancelledError")
       ELSE YieldDone(pendingExc)
    /\ UNCHANGED bgVars
    /\ UNCHANGED cancelDelivered
    /\ UNCHANGED envVars
    /\ UNCHANGED <<proxyVars, storeVars, prepVars, expVars>>

\* aclose() on the suspended generator (by the consumer, or by the event
\* loop's finalizer after the consumer was cancelled): GeneratorExit is
\* raised at the yield; only the finally clause handles it.
Close ==
    /\ consumer \in {"idle", "cancelled"}
    /\ genPc \in {"start", "y_hb", "emitting", "y_done"}
    /\ IF genPc \in {"start", "y_done"}
       THEN /\ genPc' = "finished"
            /\ closeResult' = "ok"
            /\ consumer' = "closed"
            /\ pendingExc' = "GeneratorExit"
            /\ UNCHANGED <<frames, toYield, bgCancelRequested, deadline>>
       ELSE /\ Finally("GeneratorExit")
            /\ consumer' = "closed"
    /\ UNCHANGED bgVars
    /\ UNCHANGED cancelDelivered
    /\ UNCHANGED envVars
    /\ UNCHANGED <<proxyVars, storeVars, prepVars, expVars>>

\* a step of the event loop is ready to run
StepReady ==
    \/ background_executor_task = "created"
    \/ /\ background_executor_task = "awaiting"
       /\ bgCancelRequested \/ non_stream_task # "running"
    \/ /\ genPc = "waiting"
       /\ task_completion_event \/ now >= deadline
    \/ /\ genPc \in {"await_bg_128", "await_bg_237", "await_bg_255"}
       /\ background_executor_task \in {"done", "cancelled"}
    \/ /\ non_stream_task = "running"
       /\ now >= taskT

\* Time passes, as long as the emulated stream is alive.
Tick ==
    /\ now < MaxTime
    /\ genPc \notin {"finished", "ignored_exit"}
    /\ ~StepReady
    /\ now' = now + 1
    /\ delayed' = (delayed \/ consumer = "idle")
    /\ UNCHANGED <<heartbeat_interval, taskPlan, taskT, non_stream_task>>
    /\ UNCHANGED bgVars
    /\ UNCHANGED <<genPc, deadline, toYield, pendingExc, consumer, frames,
                   cancelDelivered, closeResult, bgCancelRequested>>
    /\ UNCHANGED <<proxyVars, storeVars, prepVars, expVars>>

Next ==
    \/ GenStart
    \/ BgStart
    \/ BgResume
    \/ UpstreamResolve
    \/ CancelUpstream
    \/ WaitCompleted
    \/ WaitTimeout
    \/ ResumeAfterHeartbeat
    \/ ResumeBody
    \/ ResumeAfterDone
    \/ CancelWhileWaiting
    \/ CancelWhileIdle
    \/ BgAwaited
    \/ Close
    \/ Tick

Spec == Init /\ [][Next]_vars


\* The event loop runs every step that is ready, time passes, and the
\* consumer keeps asking for frames; cancelling and closing are left to the
\* environment.
FairSpec ==
    /\ Spec
    /\ WF_vars(BgStart)
    /\ WF_vars(BgResume)
    /\ WF_vars(UpstreamResolve)
    /\ WF_vars(WaitCompleted)
    /\ WF_vars(WaitTimeout)
    /\ WF_vars(BgAwaited)
    /\ WF_vars(Tick)
    /\ WF_vars(GenStart)
    /\ WF_vars(ResumeAfterHeartbeat)
    /\ WF_vars(ResumeBody)
    /\ WF_vars(ResumeAfterDone)

(***************************************************************************)
(* Properties of the emulated stream                                       *)
(***************************************************************************)
KindCount(k) == Cardinality({i \in 1..Len(frames) : frames[i].kind = k})
IsPayload(f) == f.kind \notin {"heartbeat", "DONE"}
Payload == SelectSeq(frames, IsPayload)
ErrorCount == Cardinality({i \in 1..Len(frames) : frames[i].kind \in ErrorKinds})
ResultCount ==
    Cardinality({i \in 1..Len(frames) : frames[i].kind \in DeltaKinds \cup {"raw"}})
Terminated == genPc \in {"finished", "ignored_exit"}
Abandoned == cancelDelivered \/ consumer \in {"cancelled", "closed"}
PastLoop == genPc \notin {"start", "waiting", "y_hb"}
DeltaRank(k) == IF k = "role" THEN 1 ELSE IF k = "content" THEN 2 ELSE 3

\* C1: in every run of the emulator that the consumer drives to exhaustion,
\* the [DONE] frame is emitted exactly once and is the last frame emitted.
C1_DoneExactlyOnceAndLast ==
    consumer = "ended" =>
        /\ KindCount("DONE") = 1
        /\ frames[Len(frames)] = DoneFrame

C1_Witness ==
    /\ consumer = "ended"
    /\ non_stream_task = "cancelled"
    /\ KindCount("heartbeat") >= 1
    /\ KindCount("DONE") = 1

\* C2: heartbeats precede every result or error frame; the result frames come
\* in the order role, content, finish reason; no frame follows [DONE]; and no
\* heartbeat is emitted once the generator has left the heartbeat loop.
C2_FrameOrder ==
    /\ [](\A i, j \in 1..Len(frames) :
            i < j =>
              /\ frames[j].kind = "heartbeat" => frames[i].kind = "heartbeat"
              /\ frames[i].kind # "DONE"
              /\ (frames[i].kind \in DeltaKinds /\ frames[j].kind \in DeltaKinds)
                    => DeltaRank(frames[i].kind) < DeltaRank(frames[j].kind))
    /\ [][PastLoop => KindCount("heartbeat")' = KindCount("heartbeat")]_vars

C2_Witness ==
    /\ Len(frames) = 6
    /\ frames[1].kind = "heartbeat"
    /\ frames[2].kind = "heartbeat"
    /\ frames[3].kind = "role"
    /\ frames[4].kind = "content"
    /\ frames[5].kind = "finish"
    /\ frames[6].kind = "DONE"

\* C3: when the upstream task fails with an exception, the stream carries
\* exactly one error frame, then [DONE], and no result frame; a failure with
\* status 429 gives an error frame with code 429.
C3_OneErrorFrameOnFailure ==
    non_stream_task = "exception" =>
        /\ ResultCount = 0
        /\ ErrorCount <= 1
        /\ consumer = "ended" =>
             /\ Len(Payload) = 1
             /\ Payload[1].kind \in ErrorKinds
             /\ frames[Len(frames)] = DoneFrame
             /\ frames[Len(frames) - 1] = Payload[1]
             /\ (taskPlan.type = "HTTPException" /\ taskPlan.status = 429)
                   => Payload[1] = Frame("api_error_in_fake_stream", 429)

C3_Witness ==
    /\ consumer = "ended"
    /\ non_stream_task = "exception"
    /\ taskPlan.status = 429
    /\ KindCount("heartbeat") = 2
    /\ Payload = <<Frame("api_error_in_fake_stream", 429)>>

\* C4: the kind of the error frame follows the failure of the upstream task:
\* an HTTP error gives the API-error frame with its status code, a
\* cancellation of the upstream task gives the cancellation frame and never
\* the API-error or generic frame, any other exception gives the generic
\* internal-error frame.
C4_ErrorFrameKind ==
    /\ \A i \in 1..Len(frames) :
         /\ frames[i].kind = "api_error_in_fake_stream" =>
               /\ non_stream_task = "exception"
               /\ taskPlan.type = "HTTPException"
               /\ frames[i].code = taskPlan.status
         /\ frames[i].kind = "server_request_cancelled_in_fake_stream" =>
               non_stream_task = "cancelled"
         /\ frames[i].kind = "internal_task_error_in_fake_stream" =>
               /\ non_stream_task = "exception"
               /\ taskPlan.type = "Exception"
    /\ (consumer = "ended" /\ non_stream_task \in {"exception", "cancelled"}) =>
         /\ Len(Payload) = 1
         /\ Payload[1].kind \in {"api_error_in_fake_stream",
                                 "server_request_cancelled_in_fake_stream",
                                 "internal_task_error_in_fake_stream"}

C4_Witness ==
    /\ consumer = "ended"
    /\ non_stream_task = "cancelled"
    /\ taskPlan.type = "HTTPException"
    /\ Payload = <<Frame("server_request_cancelled_in_fake_stream", 0)>>

\* C5: with a consumer that takes every frame as soon as it is produced and
\* an upstream task that resolves at an instant T that is not a multiple of
\* the heartbeat interval h, exactly floor(T/h) heartbeats precede the frames
\* of the result, and exactly one [DONE] ends the stream.
C5_HeartbeatCount ==
    ( /\ ~delayed
      /\ ~Abandoned
      /\ non_stream_task \in {"result", "exception"}
      /\ taskT % heartbeat_interval # 0
      /\ genPc \in {"emitting", "y_done", "finished"} ) =>
        /\ KindCount("heartbeat") = taskT \div heartbeat_interval
        /\ \A i \in 1..Len(frames) :
              frames[i].kind = "heartbeat" <=> i <= taskT \div heartbeat_interval
        /\ genPc = "finished" => KindCount("DONE") = 1

C5_Witness ==
    /\ ~delayed
    /\ heartbeat_interval = TicksPerSecond
    /\ 2 * taskT = 5 * TicksPerSecond
    /\ consumer = "ended"
    /\ KindCount("heartbeat") = 2
    /\ ResultCount = 3
    /\ KindCount("DONE") = 1

\* C6: once the upstream task is resolved, and as long as the consumer keeps
\* asking for frames (it neither cancels nor closes the stream), the emulator
\* leaves the heartbeat loop, emits [DONE] and terminates.
C6_EmulatorTerminates ==
    (non_stream_task # "running") ~>
        ((genPc = "finished" /\ KindCount("DONE") = 1) \/ Abandoned)

C6_Witness ==
    /\ genPc = "finished"
    /\ consumer = "ended"
    /\ non_stream_task = "exception"
    /\ KindCount("heartbeat") >= 1
    /\ delayed

\* C7: when the emulated stream is cancelled while the upstream call is in
\* flight, the upstream fetch task is not left running once the emulator has
\* exited.
C7_UpstreamTaskCancelled ==
    (cancelDelivered /\ genPc = "finished") => non_stream_task # "running"

\* C8: on every exit path of the emulator the background unit it started has
\* finished by the time the emulator terminates.
C8_BackgroundFinishedAtExit ==
    (Terminated /\ background_executor_task # "none") =>
        background_executor_task \in {"done", "cancelled"}

C8_Witness ==
    /\ genPc = "finished"
    /\ cancelDelivered
    /\ background_executor_task = "done"
    /\ wrapped_task_exception = CancelledError
    /\ non_stream_task = "running"

\* C9: a request for the next frame that is interrupted by the cancellation
\* of the emulator while the upstream task is outstanding ends with the
\* cancellation, never with a frame or a normal end of the stream.
C9_CancellationRaised ==
    [][(cancelDelivered' /\ consumer = "requesting" /\ non_stream_task = "running")
          => consumer' \in {"requesting", "got_cancelled"}]_vars

\* C10: once the consumer has cancelled the stream, or closed it while the
\* emulator is suspended after a frame, no further frame is produced and the
\* cleanup completes without error.
C10_NoFrameAfterCancel ==
    /\ [][(cancelDelivered' \/ consumer \in {"cancelled", "closed"})
            => frames' = frames]_vars
    /\ [](closeResult # "RuntimeError")

(***************************************************************************)
(* Texts and regex rules                                                   *)
(*                                                                         *)
(* A text is a sequence of tokens: letters, and the tokens of JSON (braces,*)
(* colon, comma, white space, string literals, a number, null).  A find    *)
(* pattern is a literal token sequence, or a pattern re.compile rejects.   *)
(* JSON objects are flat: their values are scalars.                        *)
(***************************************************************************)
\* longest rule list of a template
MaxRules == 2

KeyTokens == {"\"a\"", "\"payload\"", "\"tool_code_interpreter_output\""}
ValueTokens == {"1", "null", "\"X\""}

\* re.sub(find, repl, t) from position i on, for a literal pattern; an empty
\* pattern matches before every token and at the end
RECURSIVE SubFrom(_, _, _, _)
SubFrom(find, repl, t, i) ==
    IF i > Len(t)
    THEN IF find = <<>> THEN repl ELSE <<>>
    ELSE IF find = <<>>
         THEN repl \o <<t[i]>> \o SubFrom(find, repl, t, i + 1)
         ELSE IF /\ i + Len(find) - 1 <= Len(t)
                 /\ SubSeq(t, i, i + Len(find) - 1) = find
              THEN repl \o SubFrom(find, repl, t, i + Len(find))
              ELSE <<t[i]>> \o SubFrom(find, repl, t, i + 1)

ReSub(find, repl, t) == SubFrom(find, repl, t, 1)

\* the members of a JSON object between its braces: key : value , ...
RECURSIVE ParseMembers(_)
ParseMembers(s) ==
    IF Len(s) < 3 \/ s[1] \notin KeyTokens \/ s[2] # ":" \/ s[3] \notin ValueTokens
    THEN [ok |-> FALSE, pairs |-> <<>>]
    ELSE IF Len(s) = 3
         THEN [ok |-> TRUE, pairs |-> <<[k |-> s[1], v |-> s[3]]>>]
         ELSE IF s[4] # ","
              THEN [ok |-> FALSE, pairs |-> <<>>]
              ELSE LET r == ParseMembers(SubSeq(s, 5, Len(s))) IN
                   [ok |-> r.ok,
                    pairs |-> IF r.ok THEN <<[k |-> s[1], v |-> s[3]]>> \o r.pairs
                              ELSE <<>>]

\* obj[k] = v on a dict kept as its items in insertion order
SetKey(pairs, k, v) ==
    IF \E i \in 1..Len(pairs) : pairs[i].k = k
    THEN [i \in 1..Len(pairs) |->
            IF pairs[i].k = k THEN [k |-> k, v |-> v] ELSE pairs[i]]
    ELSE Append(pairs, [k |-> k, v |-> v])

RECURSIVE DictOf(_)
DictOf(pairs) ==
    IF pairs = <<>> THEN <<>>
    ELSE SetKey(DictOf(SubSeq(pairs, 1, Len(pairs) - 1)),
                pairs[Len(pairs)].k, pairs[Len(pairs)].v)

\* json.loads: a dict, another JSON value, or JSONDecodeError
JsonLoads(t) ==
    LET s == SelectSeq(t, LAMBDA x : x # "ws") IN
    IF Len(s) >= 2 /\ s[1] = "{" /\ s[Len(s)] = "}"
    THEN IF Len(s) = 2
         THEN [kind |-> "dict", pairs |-> <<>>, value |-> "-"]
         ELSE LET r == ParseMembers(SubSeq(s, 2, Len(s) - 1)) IN
              IF r.ok
              THEN [kind |-> "dict", pairs |-> DictOf(r.pairs), value |-> "-"]
              ELSE [kind |-> "error", pairs |-> <<>>, value |-> "-"]
    ELSE IF Len(s) = 1 /\ s[1] \in ValueTokens \cup KeyTokens
         THEN [kind |-> "scalar", pairs |-> <<>>, value |-> s[1]]
         ELSE [kind |-> "error", pairs |-> <<>>, value |-> "-"]

\* dict.get(k): the value, or null for None
GetKey(pairs, k) ==
    IF \E i \in 1..Len(pairs) : pairs[i].k = k
    THEN pairs[CHOOSE i \in 1..Len(pairs) : pairs[i].k = k].v
    ELSE "null"

RECURSIVE DumpMembers(_)
DumpMembers(pairs) ==
    IF pairs = <<>> THEN <<>>
    ELSE <<"ws", pairs[1].k, ":", "ws", pairs[1].v>>
         \o (IF Len(pairs) > 1 THEN <<",">> ELSE <<>>)
         \o DumpMembers(Tail(pairs))

\* json.dumps(obj, ensure_ascii=False, indent=2)
JsonDumps(pairs) ==
    IF pairs = <<>> THEN <<"{", "}">>
    ELSE <<"{">> \o DumpMembers(pairs) \o <<"ws", "}">>

\* re.compile rejects the pattern (an unbalanced parenthesis)
BadPattern == <<"(">>

Rule(f, r, a) == [find |-> f, replace |-> r, action |-> a]

PayloadX == <<"{", "\"payload\"", ":", "ws", "\"X\"", "}">>
PayloadNull == <<"{", "\"payload\"", ":", "ws", "null", "}">>

\* the rule entries a template may hold (_load_templates, lines 122-126)
Rules ==
    { Rule(<<"a">>, <<"a", "a">>, "replace"),
      Rule(<<"b">>, <<>>, "replace"),
      Rule(<<>>, <<"b">>, "replace"),
      Rule(BadPattern, <<"a">>, "replace"),
      Rule(<<"a">>, PayloadX, "json_payload"),
      Rule(<<"a">>, PayloadNull, "json_payload"),
      Rule(<<"a">>, <<"{">>, "json_payload"),
      Rule(<<"a">>, <<"b">>, "append") }

RuleLists == UNION {[1..n -> Rules] : n \in 0..MaxRules}

\* the texts an upstream message may carry
ObjectA == <<"{", "\"a\"", ":", "ws", "1", "}">>
Texts == {<<>>, <<"a">>, <<"a", "b">>, <<"1">>, ObjectA}

\* the try block of one rule raises: re.compile rejects the pattern of a
\* replace rule (re.error, line 352), or json.loads rejects the replace field
\* of a json_payload rule (JSONDecodeError, line 335)
RuleFails(rule) ==
    \/ rule.action = "replace" /\ rule.find = BadPattern
    \/ rule.action = "json_payload" /\ JsonLoads(rule.replace).kind = "error"

\* variant: a working text that is not JSON is left as it is
ThApplyRuleKeepsUnparsed(cur, rule) ==
    IF rule.action = "json_payload"
    THEN LET p == JsonLoads(rule.replace) IN
         IF p.kind # "dict"
         THEN cur
         ELSE LET payload_to_inject == GetKey(p.pairs, "\"payload\"") IN
              IF payload_to_inject = "null"
              THEN cur
              ELSE LET o == JsonLoads(cur) IN
                   IF o.kind # "dict"
                   THEN cur
                   ELSE JsonDumps(SetKey(o.pairs,
                                         "\"tool_code_interpreter_output\"",
                                         payload_to_inject))
    ELSE IF rule.action = "replace"
         THEN IF rule.find = BadPattern
              THEN cur
              ELSE ReSub(rule.find, rule.replace, cur)
         ELSE cur

\* template_handler.py: one rule of _apply_regex_rules_to_content
ThApplyRule(cur, rule) ==
    IF rule.action = "json_payload"
    THEN LET p == JsonLoads(rule.replace) IN
         IF p.kind # "dict"
         THEN cur    \* JSONDecodeError, or .get on a non-dict: rule skipped
         ELSE LET payload_to_inject == GetKey(p.pairs, "\"payload\"") IN
              IF payload_to_inject = "null"
              THEN cur
              ELSE LET o == JsonLoads(cur) IN
                   IF o.kind = "scalar"
                   THEN cur
                   ELSE JsonDumps(SetKey(o.pairs,
                                         "\"tool_code_interpreter_output\"",
                                         payload_to_inject))
    ELSE IF rule.action = "replace"
         THEN IF rule.find = BadPattern
              THEN cur    \* re.error: rule skipped
              ELSE ReSub(rule.find, rule.replace, cur)
         ELSE cur

\* variant: the first rule that fails ends the loop
RECURSIVE ThApplyFromAbortOnFailure(_, _, _)
ThApplyFromAbortOnFailure(cur, rules, i) ==
    IF i > Len(rules) \/ RuleFails(rules[i]) THEN cur
    ELSE ThApplyFromAbortOnFailure(ThApplyRule(cur, rules[i]), rules, i + 1)

\* lines 299-357: the loop over the rules, from rule i on
RECURSIVE ThApplyFrom(_, _, _)
ThApplyFrom(cur, rules, i) ==
    IF i > Len(rules) THEN cur
    ELSE ThApplyFrom(ThApplyRule(cur, rules[i]), rules, i + 1)

\* variant: every rule works on the original text, and the result of the last
\* rule is returned
ApplyTHOnOriginal(text, rules) ==
    IF rules = <<>> THEN text ELSE ThApplyRule(text, rules[Len(rules)])

\* template_handler.py: _apply_regex_rules_to_content(text_content, regex_rules)
\* for a string
ApplyTH(text, rules) ==
    IF rules = <<>> THEN text ELSE ThApplyFrom(text, rules, 1)

\* conversion_utils.py: one rule of _apply_regex_rules_to_content, which is
\* also the loop body of execute_stream_openai_request (lines 341-349)
CuApplyRule(cur, rule) ==
    IF rule.find # <<>>
    THEN IF rule.find = BadPattern
         THEN cur
         ELSE ReSub(rule.find, rule.replace, cur)
    ELSE cur

RECURSIVE CuApplyFrom(_, _, _)
CuApplyFrom(cur, rules, i) ==
    IF i > Len(rules) THEN cur
    ELSE CuApplyFrom(CuApplyRule(cur, rules[i]), rules, i + 1)

\* conversion_utils.py: _apply_regex_rules_to_content(content, regex_rules)
ApplyCU(content, rules) ==
    IF content = <<>> \/ rules = <<>> THEN content
    ELSE CuApplyFrom(content, rules, 1)

(***************************************************************************)
(* One client request through the endpoint                                 *)
(* (main.py, chat_completions_proxy_endpoint) and the client of the        *)
(* upstream API (openai_client.py).  The upstream API answers a call as it *)
(* likes; the emulator is reduced to the frames of its body and [DONE].    *)
(***************************************************************************)
\* most data lines of an upstream stream
MaxLines == 2

\* statuses other than 200 the upstream API answers with
UpstreamErrorStatuses == {429, 503}

\* response.aiter_text() hands the body over in chunks of its own choosing:
\* the line a chunk boundary falls into and where in the line, inside the
\* "data: " prefix or inside the payload after it; no boundary inside a line
\* is line 0.  At most one line of a stream is cut.
NoCut == [line |-> 0, at |-> "-"]

Plan(k, st, ro, co, li, en) ==
    [kind |-> k, status |-> st, role |-> ro, content |-> co, lines |-> li,
     ending |-> en, ckind |-> "str", finish |-> TRUE, cut |-> NoCut]

\* a chat completion: the role of its message ("absent": no role key), its
\* content (ck is "str" for a string, "null" for None, "absent" for no
\* content key) and whether its choice has a finish_reason
ChatCompletion(ro, ck, co, fi) ==
    [kind |-> "ok", status |-> 200, role |-> ro, content |-> co,
     lines |-> <<>>, ending |-> "-", ckind |-> ck, finish |-> fi,
     cut |-> NoCut]

MessageRoles == {"assistant", "user", "absent"}
MessageContents ==
    {<<"str", t>> : t \in Texts} \cup {<<"null", <<>>>>, <<"absent", <<>>>>}

\* the upstream API on client.post: a chat completion, another status, no
\* answer in time, no connection, or a body that is not JSON
NonStreamPlans ==
    {ChatCompletion(r, c[1], c[2], f) :
        r \in MessageRoles, c \in MessageContents, f \in BOOLEAN}
    \cup {Plan("status", st, "-", <<>>, <<>>, "-") : st \in UpstreamErrorStatuses}
    \cup {Plan(k, 0, "-", <<>>, <<>>, "-") : k \in {"timeout", "network"}}
    \cup {Plan("badjson", 200, "-", <<>>, <<>>, "-")}

\* a data line of the upstream stream: a chunk with a content delta, or a
\* chunk without one (role, finish reason)
DataLines ==
    {[kind |-> "content", text |-> t] : t \in {<<"a">>, <<"b">>, <<"a", "b">>}}
    \cup {[kind |-> "nocontent", text |-> <<>>]}

\* the upstream API on client.stream: as above, or a stream of data lines
\* that ends with [DONE], with the end of the body, or with a failure
\* the chunk boundaries of a stream of n data lines; the [DONE] line is line
\* n + 1
StreamCuts(n, en) ==
    {NoCut}
    \cup {[line |-> i, at |-> a] :
             i \in 1..(n + (IF en = "done" THEN 1 ELSE 0)),
             a \in {"prefix", "payload"}}

StreamPlans ==
    UNION {{[Plan("stream", 200, "-", <<>>, li, en) EXCEPT !.cut = c] :
               c \in StreamCuts(Len(li), en)} :
        li \in UNION {[1..n -> DataLines] : n \in 0..MaxLines},
        en \in {"done", "eof", "network", "timeout"}}
    \cup {Plan("status", st, "-", <<>>, <<>>, "-") : st \in UpstreamErrorStatuses}
    \cup {Plan(k, 0, "-", <<>>, <<>>, "-") : k \in {"timeout", "network"}}

\* the exception raised inside the try block of the call, None without one
RaisedInTry(plan) ==
    IF plan.kind = "status"
    THEN [type |-> "HTTPException", status |-> plan.status]
    ELSE IF plan.kind = "timeout" \/ plan.ending = "timeout"
         THEN [type |-> "TimeoutException", status |-> 0]
         ELSE IF plan.kind = "network" \/ plan.ending = "network"
              THEN [type |-> "RequestError", status |-> 0]
              ELSE IF plan.kind = "badjson"
                   THEN [type |-> "JSONDecodeError", status |-> 0]
                   ELSE [type |-> "None", status |-> 0]

\* the except clauses that close the try block, in their order: the status
\* of the HTTPException that leaves the function
ExceptClauses(raised) ==
    IF raised.type = "TimeoutException" THEN 504
    ELSE IF raised.type = "RequestError" THEN 502
         ELSE 500

\* conversion_utils.py: apply_regex_rules_to_response on the message of a
\* chat completion
RulesOnResponse(content, rules) ==
    IF rules = <<>> THEN content
    ELSE IF content # <<>> THEN ApplyCU(content, rules) ELSE content

\* what execute_non_stream_openai_request returns or raises
Outcome(st, ro, co) ==
    [status |-> st, role |-> ro, content |-> co, ckind |-> "str",
     finish |-> TRUE]

NonStreamOutcome(plan, rules) ==
    IF RaisedInTry(plan).type # "None"
    THEN Outcome(ExceptClauses(RaisedInTry(plan)), "-", <<>>)
    ELSE [status |-> 200, role |-> plan.role,
          content |-> RulesOnResponse(plan.content, rules),
          ckind |-> plan.ckind, finish |-> plan.finish]

\* streaming_utils.py, lines 157-168: the content the emulator puts in its
\* content delta
EmulatorContent(role, content, rules) ==
    IF role = "assistant" THEN ApplyTH(content, rules) ELSE content

\* lines 158-168: what message.get("content") is after the rules: the
\* content read with the default "" is written back when the rules changed it
EmulatorContentKind(o, rules) ==
    IF o.role = "assistant" /\ o.ckind = "absent" /\ ApplyTH(<<>>, rules) # <<>>
    THEN "str"
    ELSE o.ckind

TextFrame(k, c, t) == [kind |-> k, code |-> c, text |-> t]

\* the frames of the emulated stream for the outcome of the task; lines
\* 181-206 for a chat completion
EmulatedFrames(o, rules) ==
    IF o.status # 200
    THEN LET f == ErrorFrame([type |-> "HTTPException", status |-> o.status]) IN
         <<TextFrame(f.kind, f.code, <<>>), TextFrame("DONE", 0, <<>>)>>
    ELSE (IF o.role # "absent" THEN <<TextFrame("role", 0, <<>>)>> ELSE <<>>)
         \o (IF EmulatorContentKind(o, rules) = "str"
             THEN <<TextFrame("content", 0,
                              EmulatorContent(o.role, o.content, rules))>>
             ELSE <<>>)
         \o (IF o.finish THEN <<TextFrame("finish", 0, <<>>)>> ELSE <<>>)
         \o <<TextFrame("DONE", 0, <<>>)>>

\* variant: a failed call is made again
PcAfterCallRetry(fake, failed) ==
    IF failed
    THEN IF fake THEN "fs_task" ELSE "ns_await"
    ELSE IF fake THEN "fs_emit" ELSE "ns_done"

\* where the request stands once client.post has been awaited: the outcome
\* goes to the emulator, or to the client
PcAfterCall(fake, failed) == IF fake THEN "fs_emit" ELSE "ns_done"

\* openai_client.py, lines 334-370: the frames yielded on the [DONE] line
FramesOnDone(full, rules) ==
    (IF rules # <<>> /\ full # <<>> /\ CuApplyFrom(full, rules, 1) # full
     THEN <<TextFrame("content", 0, CuApplyFrom(full, rules, 1))>>
     ELSE <<>>)
    \o <<TextFrame("DONE", 0, <<>>)>>

ProxyInit ==
    /\ client_requests_stream \in BOOLEAN
    /\ fake_streaming_enabled \in BOOLEAN
    /\ selected_regex_rules = <<>>
    /\ upstream = Plan("none", 0, "-", <<>>, <<>>, "-")
    /\ pxPc = "received"
    /\ http_calls = 0
    /\ response = Outcome(0, "-", <<>>)
    /\ sse = <<>>
    /\ full_content = <<>>
    /\ upPos = 0
    /\ EmulatorParked
    /\ StoreParked
    /\ PrepParked
    /\ ExpandParked

proxyRest == <<emuVars, storeVars, prepVars, expVars,
               client_requests_stream,
               fake_streaming_enabled>>

\* main.py, lines 237-280: the endpoint prepares the messages, which selects
\* the regex rules, and takes the branch of the mode
Dispatch ==
    /\ pxPc = "received"
    /\ \E rules \in RuleLists : selected_regex_rules' = rules
    /\ pxPc' = IF ~client_requests_stream THEN "ns_await"
               ELSE IF fake_streaming_enabled THEN "fs_task" ELSE "rs_gen"
    /\ UNCHANGED <<upstream, http_calls, response, sse, full_content, upPos>>
    /\ UNCHANGED proxyRest

\* openai_client.py, lines 177-239: execute_non_stream_openai_request makes
\* its call and returns or raises
NonStreamCall ==
    /\ pxPc \in {"ns_await", "fs_task"}
    /\ \E plan \in NonStreamPlans :
          /\ upstream' = plan
          /\ response' = NonStreamOutcome(plan, selected_regex_rules)
          /\ pxPc' = PcAfterCall(pxPc = "fs_task",
                                 RaisedInTry(plan).type # "None")
    /\ http_calls' = http_calls + 1
    /\ UNCHANGED <<selected_regex_rules, sse, full_content, upPos>>
    /\ UNCHANGED proxyRest

\* streaming_utils.py: the emulator turns the outcome of the task into frames
Emulate ==
    /\ pxPc = "fs_emit"
    /\ sse' = EmulatedFrames(response, selected_regex_rules)
    /\ pxPc' = "fs_closed"
    /\ UNCHANGED <<selected_regex_rules, upstream, http_calls, response,
                   full_content, upPos>>
    /\ UNCHANGED proxyRest

\* openai_client.py, lines 306-326: execute_stream_openai_request opens the
\* upstream stream; anything but a 200 raises out of the generator
StreamOpen ==
    /\ pxPc = "rs_gen"
    /\ \E plan \in StreamPlans :
          /\ upstream' = plan
          /\ IF plan.kind = "stream"
             THEN /\ pxPc' = "rs_relay"
                  /\ response' = response
             ELSE /\ pxPc' = "rs_raised"
                  /\ response' = Outcome(ExceptClauses(RaisedInTry(plan)), "-", <<>>)
    /\ http_calls' = http_calls + 1
    /\ full_content' = <<>>
    /\ upPos' = 0
    /\ UNCHANGED <<selected_regex_rules, sse>>
    /\ UNCHANGED proxyRest

\* how line i of the upstream stream reaches the loop of line 328
Arrives(plan, i) == IF plan.cut.line = i THEN plan.cut.at ELSE "whole"

\* lines 328-395 on one upstream line: the frames yielded and the text added
\* to full_content.  Each chunk is split at its line ends on its own (line
\* 331): of a line cut inside its payload the first part starts with
\* "data: ", does not parse and is yielded as it is (line 395) while the rest
\* is skipped at line 332; of a line cut inside its prefix both parts are
\* skipped
RelayOf(line, how) ==
    IF how = "whole"
    THEN [frames |-> <<TextFrame(line.kind, 0, line.text)>>, text |-> line.text]
    ELSE IF how = "payload"
         THEN [frames |-> <<TextFrame("fragment", 0, <<>>)>>, text |-> <<>>]
         ELSE [frames |-> <<>>, text |-> <<>>]

\* lines 371-392: a data line is relayed as it came, its content delta is
\* added to full_content
RelayLine ==
    /\ pxPc = "rs_relay"
    /\ upPos < Len(upstream.lines)
    /\ LET line == upstream.lines[upPos + 1]
           relayed == RelayOf(line, Arrives(upstream, upPos + 1)) IN
       /\ sse' = sse \o relayed.frames
       /\ full_content' = full_content \o relayed.text
    /\ upPos' = upPos + 1
    /\ UNCHANGED <<selected_regex_rules, upstream, pxPc, http_calls, response>>
    /\ UNCHANGED proxyRest

\* the upstream stream ends: with the [DONE] line (lines 334-370), with the
\* end of the body, or with a failure that raises out of the generator
\* (lines 397-405).  A [DONE] line that is cut is not recognised at line 334,
\* and the generator ends with the body.
RelayEnd ==
    /\ pxPc = "rs_relay"
    /\ upPos = Len(upstream.lines)
    /\ IF upstream.ending = "done"
       THEN /\ sse' = sse \o
                  (IF Arrives(upstream, upPos + 1) = "whole"
                   THEN FramesOnDone(full_content, selected_regex_rules)
                   ELSE RelayOf(<<>>, Arrives(upstream, upPos + 1)).frames)
            /\ pxPc' = "rs_closed"
            /\ response' = response
       ELSE IF upstream.ending = "eof"
            THEN /\ pxPc' = "rs_closed"
                 /\ UNCHANGED <<sse, response>>
            ELSE /\ pxPc' = "rs_raised"
                 /\ response' = Outcome(ExceptClauses(RaisedInTry(upstream)), "-", <<>>)
                 /\ sse' = sse
    /\ UNCHANGED <<selected_regex_rules, upstream, http_calls, full_content, upPos>>
    /\ UNCHANGED proxyRest

ProxyNext ==
    \/ Dispatch
    \/ NonStreamCall
    \/ Emulate
    \/ StreamOpen
    \/ RelayLine
    \/ RelayEnd

ProxySpec == ProxyInit /\ [][ProxyNext]_vars

(***************************************************************************)
(* Properties of the handling of a request                                 *)
(***************************************************************************)
RECURSIVE Concat(_)
Concat(ts) == IF ts = <<>> THEN <<>> ELSE Head(ts) \o Concat(Tail(ts))

\* the text of the content deltas among the frames fs, in order
ContentText(fs) ==
    Concat([i \in 1..Len(SelectSeq(fs, LAMBDA f : f.kind = "content")) |->
              SelectSeq(fs, LAMBDA f : f.kind = "content")[i].text])

\* the assistant text a streaming client puts together
ClientText == ContentText(sse)
\* the concatenation of the upstream content deltas
UpstreamText == ContentText(upstream.lines)

RequestOver == pxPc \in {"ns_done", "fs_closed", "rs_closed", "rs_raised"}

\* C11: in each of the three modes at most one HTTP call is made to the
\* upstream API for a client request; a failed call is not made again.
C11_AtMostOneUpstreamCall ==
    /\ http_calls <= 1
    /\ RequestOver => http_calls = 1

C11_Witness ==
    /\ pxPc = "fs_closed"
    /\ upstream.kind = "timeout"
    /\ http_calls = 1
    /\ sse[1].kind = "api_error_in_fake_stream"

\* C12: when the upstream API answers the non-streaming call with a status
\* S other than 200, the HTTP error given to a non-streaming client and the
\* code of the error frame of an emulated stream are S; 502 and 504 are
\* surfaced only when there is no upstream status.
C12_UpstreamStatusSurfaced ==
    /\ (pxPc \in {"ns_done", "fs_emit", "fs_closed"} /\ upstream.kind = "status")
          => response.status = upstream.status
    /\ (pxPc = "fs_closed" /\ upstream.kind = "status")
          => sse[1].code = upstream.status
    /\ (pxPc \in {"ns_done", "fs_emit", "fs_closed"} /\ response.status \in {502, 504})
          => upstream.kind \in {"timeout", "network"}

\* C13: in real streaming, when the upstream call fails (status other than
\* 200, timeout, network error, failure while relaying), the stream given
\* to the client still ends with the [DONE] frame.
C13_FailedStreamEndsWithDone ==
    pxPc = "rs_raised" => (sse # <<>> /\ sse[Len(sse)].kind = "DONE")

\* C14: in emulated streaming, for an upstream assistant message with
\* string content c, the content delta carries apply(c, rules): the selected
\* rules are applied exactly once between the upstream response and the
\* client.  Either regex processor of the code is accepted as apply.
C14_RulesAppliedOnce ==
    (pxPc = "fs_closed" /\ upstream.kind = "ok" /\ upstream.role = "assistant"
        /\ upstream.ckind = "str")
       => sse[2].text \in {ApplyTH(upstream.content, selected_regex_rules),
                           ApplyCU(upstream.content, selected_regex_rules)}

\* C15: the regex processing of non-streaming responses and of the
\* accumulated text of real-streaming responses gives, for every text and
\* every rule list, the result of the apply of the template engine that the
\* emulator uses.
C15_SameRegexProcessing ==
    /\ (pxPc = "ns_done" /\ upstream.kind = "ok" /\ upstream.ckind = "str")
          => response.content = ApplyTH(upstream.content, selected_regex_rules)
    /\ (pxPc = "rs_closed" /\ upstream.ending = "done"
          /\ selected_regex_rules # <<>> /\ full_content # <<>>)
          => SubSeq(sse, upPos + 1, Len(sse)) =
                (IF ApplyTH(full_content, selected_regex_rules) # full_content
                 THEN <<TextFrame("content", 0,
                                  ApplyTH(full_content, selected_regex_rules))>>
                 ELSE <<>>) \o <<TextFrame("DONE", 0, <<>>)>>

\* C16: in real streaming with a non-empty rule list, the text the client
\* reconstructs from the content deltas it receives before [DONE] is
\* apply(t, rules), t being the concatenation of the upstream content deltas.
\* Either regex processor of the code is accepted as apply.
C16_ClientTextIsProcessedText ==
    (pxPc = "rs_closed" /\ upstream.ending = "done" /\ selected_regex_rules # <<>>)
       => ClientText \in {ApplyTH(UpstreamText, selected_regex_rules),
                          ApplyCU(UpstreamText, selected_regex_rules)}

(***************************************************************************)
(* The template store (template_handler.py): the template file of each of  *)
(* the two paths, the caches _load_templates keeps per path, and requests  *)
(* that prepare their messages and are answered later.  A prepare call has *)
(* no await in it, so it is one step; the upstream call lies between the   *)
(* preparation of a request and its answer, and other requests and file    *)
(* changes happen in between.                                              *)
(***************************************************************************)
\* largest modification time of a template file; 0 is the epoch, 0.0
MaxMtime == 2
\* requests in flight
NumRequests == 2
\* changes made to the template files after the start
MaxFileChanges == 1

\* settings.proxy.prompt_template_path_with_input / _without_input
TemplatePaths == {"with_input", "without_input"}
Mtimes == 0..MaxMtime
Requests == 1..NumRequests

\* a top-level item of the YAML list: a regex rule with its find and replace
\* fields, a regex rule that lacks one of them, a prompt blueprint, or an
\* item that is not a mapping
Item(t, n) == [type |-> t, name |-> n]
TemplateLists ==
    { <<>>,
      <<Item("prompt", "p1"), Item("regex", "r1"), Item("regex_incomplete", "r0")>>,
      <<Item("regex", "r2"), Item("scalar", "s"), Item("prompt", "p2")>> }

File(e, m, k, l) == [exists |-> e, mtime |-> m, kind |-> k, items |-> l]
NoFile == File(FALSE, 0, "-", <<>>)
\* a file holds a YAML list, YAML that is not a list, or text that is not YAML
Files ==
    {NoFile}
    \cup {File(TRUE, m, "list", l) : m \in Mtimes, l \in TemplateLists}
    \cup {File(TRUE, m, k, <<>>) : m \in Mtimes, k \in {"notlist", "badyaml"}}

\* a file the process is not allowed to read: os.path.getmtime succeeds and
\* open() raises PermissionError ("noopen"), or os.path.getmtime itself raises
\* an OSError other than FileNotFoundError ("nostat": a directory of the path
\* cannot be searched, or a component of the path is a regular file)
UnreadableFiles ==
    {File(TRUE, m, "noopen", <<>>) : m \in Mtimes}
    \cup {File(TRUE, 0, "nostat", <<>>)}

\* lines 111-146: the blueprints and the rules of a list
ParseBlueprints(items) == SelectSeq(items, LAMBDA i : i.type = "prompt")
ParseRules(items) == SelectSeq(items, LAMBDA i : i.type = "regex")

\* variant: a set that was loaded once is taken for current whatever the
\* modification time of the file
CacheHitIgnoresMtime(force, mtime, last) == ~force /\ last # 0

\* variant: the cache is never taken for current
CacheHitNever(force, mtime, last) == FALSE

\* line 95: the file is taken for unchanged
CacheHit(force, mtime, last) == ~force /\ mtime = last /\ last # 0

Loaded(b, r, l, op, out) ==
    [blueprints |-> b, rules |-> r, last |-> l, opened |-> op, outcome |-> out]

\* variant: a failed load empties the cache
LoadTemplatesFailEmpties(f, bp, rr, last, force) ==
    IF f.kind = "nostat"
    THEN Loaded(bp, rr, last, FALSE, "raised")
    ELSE IF ~f.exists
    THEN Loaded(<<>>, <<>>, 0, FALSE, "missing")
    ELSE IF CacheHit(force, f.mtime, last)
         THEN Loaded(bp, rr, last, FALSE, "hit")
         ELSE IF f.kind = "list"
              THEN Loaded(ParseBlueprints(f.items), ParseRules(f.items),
                          f.mtime, TRUE, "loaded")
              ELSE Loaded(<<>>, <<>>, last, TRUE, "failed")

\* variant: a successful load replaces the rules and keeps the blueprints
LoadTemplatesKeepsBlueprints(f, bp, rr, last, force) ==
    IF f.kind = "nostat"
    THEN Loaded(bp, rr, last, FALSE, "raised")
    ELSE IF ~f.exists
    THEN Loaded(<<>>, <<>>, 0, FALSE, "missing")
    ELSE IF CacheHit(force, f.mtime, last)
         THEN Loaded(bp, rr, last, FALSE, "hit")
         ELSE IF f.kind = "list"
              THEN Loaded(bp, ParseRules(f.items), f.mtime, TRUE, "loaded")
              ELSE Loaded(IF last = 0 THEN <<>> ELSE bp,
                          IF last = 0 THEN <<>> ELSE rr, last, TRUE, "failed")

\* _load_templates(template_path, force_reload) on the file f of the path,
\* with the cache entries bp, rr and last of the path.  Line 77 catches
\* FileNotFoundError only: any other error of os.path.getmtime leaves the
\* function as an exception ("raised"); an error of open() is caught at line
\* 165 and handled like a file that does not parse.
LoadTemplates(f, bp, rr, last, force) ==
    IF f.kind = "nostat"
    THEN Loaded(bp, rr, last, FALSE, "raised")
    ELSE IF ~f.exists
    THEN Loaded(<<>>, <<>>, 0, FALSE, "missing")
    ELSE IF CacheHit(force, f.mtime, last)
         THEN Loaded(bp, rr, last, FALSE, "hit")
         ELSE IF f.kind = "list"
              THEN Loaded(ParseBlueprints(f.items), ParseRules(f.items),
                          f.mtime, TRUE, "loaded")
              ELSE Loaded(IF last = 0 THEN <<>> ELSE bp,
                          IF last = 0 THEN <<>> ELSE rr, last, TRUE, "failed")

\* _logged_not_found_paths after the call: the path is added when the file is
\* missing and removed once yaml.safe_load has returned (lines 80-82, 104-106)
LoggedNotFound(logged, p, f, res) ==
    IF res.outcome = "missing" THEN logged \cup {p}
    ELSE IF res.opened /\ f.kind \in {"list", "notlist"} THEN logged \ {p}
         ELSE logged

\* variant: the rules are looked up in the cache again when the answer is
\* processed
RulesAtAnswerFromCache(captured, cached) == cached

\* the rules applied to the answer of a request are the list object its
\* prepared_data holds (openai_client.py line 137, main.py line 257)
RulesAtAnswer(captured, cached) == captured

\* the record kept of a _load_templates call on a path
Call(res, unt, prev, f, last, bp, rr, good, ever) ==
    [outcome |-> res.outcome, opened |-> res.opened, untouched |-> unt,
     prev |-> prev, mtime |-> f.mtime, lastBefore |-> last,
     blueprintsBefore |-> bp, rulesBefore |-> rr, goodBefore |-> good,
     everBefore |-> ever]

Startup(f) == LoadTemplates(f, <<>>, <<>>, 0, TRUE)

\* lines 172-174: both paths are loaded when the module is imported
StoreInit ==
    /\ templateFile \in [TemplatePaths -> Files]
    /\ CACHED_PROMPT_BLUEPRINTS =
          [p \in TemplatePaths |-> Startup(templateFile[p]).blueprints]
    /\ CACHED_REGEX_RULES =
          [p \in TemplatePaths |-> Startup(templateFile[p]).rules]
    /\ LAST_TEMPLATE_MTIME =
          [p \in TemplatePaths |-> Startup(templateFile[p]).last]
    /\ logged_not_found_paths =
          {p \in TemplatePaths : Startup(templateFile[p]).outcome = "missing"}
    /\ reqPc = [r \in Requests |-> "new"]
    /\ reqPrepared = [r \in Requests |->
                        [path |-> "-", blueprints |-> <<>>, rules |-> <<>>]]
    /\ reqApplied = [r \in Requests |-> [rules |-> <<>>, cached |-> <<>>]]
    /\ lastLoad = [p \in TemplatePaths |->
                     Call(Startup(templateFile[p]), FALSE, "none",
                          templateFile[p], 0, <<>>, <<>>, FALSE, FALSE)]
    /\ touched = {}
    /\ goodCached =
          {p \in TemplatePaths : Startup(templateFile[p]).outcome = "loaded"}
    /\ fileChanges = 0
    /\ EmulatorParked
    /\ ProxyParked
    /\ PrepParked
    /\ ExpandParked

\* _prepare_openai_messages, lines 420-426 and 588-592: the path is chosen by
\* the user input, the path is loaded, and the request keeps the lists of the
\* cache; an exception of _load_templates is not caught and ends the call
Prepare(r) ==
    /\ reqPc[r] = "new"
    /\ \E p \in TemplatePaths :
          LET f == templateFile[p]
              res == LoadTemplates(f, CACHED_PROMPT_BLUEPRINTS[p],
                                   CACHED_REGEX_RULES[p],
                                   LAST_TEMPLATE_MTIME[p], FALSE)
          IN
          /\ CACHED_PROMPT_BLUEPRINTS' =
                [CACHED_PROMPT_BLUEPRINTS EXCEPT ![p] = res.blueprints]
          /\ CACHED_REGEX_RULES' = [CACHED_REGEX_RULES EXCEPT ![p] = res.rules]
          /\ LAST_TEMPLATE_MTIME' = [LAST_TEMPLATE_MTIME EXCEPT ![p] = res.last]
          /\ logged_not_found_paths' =
                LoggedNotFound(logged_not_found_paths, p, f, res)
          /\ reqPrepared' =
                IF res.outcome = "raised" THEN reqPrepared
                ELSE [reqPrepared EXCEPT ![r] =
                        [path |-> p, blueprints |-> res.blueprints,
                         rules |-> res.rules]]
          /\ reqPc' = [reqPc EXCEPT ![r] =
                IF res.outcome = "raised" THEN "raised" ELSE "prepared"]
          /\ lastLoad' = [lastLoad EXCEPT ![p] =
                Call(res, p \notin touched, lastLoad[p].outcome, f,
                     LAST_TEMPLATE_MTIME[p], CACHED_PROMPT_BLUEPRINTS[p],
                     CACHED_REGEX_RULES[p], p \in goodCached,
                     lastLoad[p].everBefore \/ lastLoad[p].outcome = "loaded")]
          /\ touched' = touched \ {p}
          /\ goodCached' =
                IF res.outcome = "loaded" THEN goodCached \cup {p}
                ELSE IF res.outcome = "missing"
                        \/ (res.outcome = "failed" /\ LAST_TEMPLATE_MTIME[p] = 0)
                     THEN goodCached \ {p}
                     ELSE goodCached
    /\ UNCHANGED <<templateFile, reqApplied, fileChanges>>
    /\ UNCHANGED <<emuVars, proxyVars, prepVars, expVars>>

\* the upstream call has returned: the rules are applied to its answer
Answer(r) ==
    /\ reqPc[r] = "prepared"
    /\ reqApplied' = [reqApplied EXCEPT ![r] =
          [rules |-> RulesAtAnswer(reqPrepared[r].rules,
                                   CACHED_REGEX_RULES[reqPrepared[r].path]),
           cached |-> CACHED_REGEX_RULES[reqPrepared[r].path]]]
    /\ reqPc' = [reqPc EXCEPT ![r] = "answered"]
    /\ UNCHANGED <<templateFile, CACHED_PROMPT_BLUEPRINTS, CACHED_REGEX_RULES,
                   LAST_TEMPLATE_MTIME, logged_not_found_paths, reqPrepared,
                   lastLoad, touched, goodCached, fileChanges>>
    /\ UNCHANGED <<emuVars, proxyVars, prepVars, expVars>>

\* Environment: a template file is written (modified, corrupted, recreated)
WriteFile(p) ==
    /\ fileChanges < MaxFileChanges
    /\ \E f \in Files \ {NoFile, templateFile[p]} :
          templateFile' = [templateFile EXCEPT ![p] = f]
    /\ touched' = touched \cup {p}
    /\ fileChanges' = fileChanges + 1
    /\ UNCHANGED <<CACHED_PROMPT_BLUEPRINTS, CACHED_REGEX_RULES,
                   LAST_TEMPLATE_MTIME, logged_not_found_paths, reqPc,
                   reqPrepared, reqApplied, lastLoad, goodCached>>
    /\ UNCHANGED <<emuVars, proxyVars, prepVars, expVars>>

\* Environment: a template file is deleted
DeleteFile(p) ==
    /\ fileChanges < MaxFileChanges
    /\ templateFile[p].exists
    /\ templateFile' = [templateFile EXCEPT ![p] = NoFile]
    /\ touched' = touched \cup {p}
    /\ fileChanges' = fileChanges + 1
    /\ UNCHANGED <<CACHED_PROMPT_BLUEPRINTS, CACHED_REGEX_RULES,
                   LAST_TEMPLATE_MTIME, logged_not_found_paths, reqPc,
                   reqPrepared, reqApplied, lastLoad, goodCached>>
    /\ UNCHANGED <<emuVars, proxyVars, prepVars, expVars>>

StoreNext ==
    \/ \E r \in Requests : Prepare(r)
    \/ \E r \in Requests : Answer(r)
    \/ \E p \in TemplatePaths : WriteFile(p)
    \/ \E p \in TemplatePaths : DeleteFile(p)

StoreSpec == StoreInit /\ [][StoreNext]_vars

(***************************************************************************)
(* The template store in an environment that also takes the permission to  *)
(* read a template file away.  The service starts with a loadable          *)
(* with-input template (otherwise the import of the module, which loads    *)
(* both paths, may already fail).                                          *)
(***************************************************************************)
AccessInit ==
    /\ StoreInit
    /\ templateFile["with_input"].kind = "list"
    /\ templateFile["with_input"].mtime # 0
    /\ templateFile["without_input"].kind \in {"-", "list"}

\* Environment: the permissions of a template file, or of a directory on its
\* path, are changed so that the process may not read it any more
Protect(p) ==
    /\ fileChanges < MaxFileChanges
    /\ \E f \in UnreadableFiles \ {templateFile[p]} :
          templateFile' = [templateFile EXCEPT ![p] = f]
    /\ touched' = touched \cup {p}
    /\ fileChanges' = fileChanges + 1
    /\ UNCHANGED <<CACHED_PROMPT_BLUEPRINTS, CACHED_REGEX_RULES,
                   LAST_TEMPLATE_MTIME, logged_not_found_paths, reqPc,
                   reqPrepared, reqApplied, lastLoad, goodCached>>
    /\ UNCHANGED <<emuVars, proxyVars, prepVars, expVars>>

AccessNext ==
    \/ \E r \in Requests : Prepare(r)
    \/ \E r \in Requests : Answer(r)
    \/ \E p \in TemplatePaths : WriteFile(p)
    \/ \E p \in TemplatePaths : DeleteFile(p)
    \/ \E p \in TemplatePaths : Protect(p)

AccessSpec == AccessInit /\ [][AccessNext]_vars

(***************************************************************************)
(* Properties of the template store                                        *)
(***************************************************************************)
\* the cached TemplateSet of p is what it was before the latest call on p
CacheAsBefore(p) ==
    /\ CACHED_PROMPT_BLUEPRINTS[p] = lastLoad[p].blueprintsBefore
    /\ CACHED_REGEX_RULES[p] = lastLoad[p].rulesBefore

CacheEmpty(p) ==
    /\ CACHED_PROMPT_BLUEPRINTS[p] = <<>>
    /\ CACHED_REGEX_RULES[p] = <<>>

\* C17: the rules applied to the answer of a request are those its own
\* prepare call selected, whatever reloads other requests have caused since.
C17_RulesCapturedAtPrepare ==
    \A r \in Requests :
        reqPc[r] = "answered" => reqApplied[r].rules = reqPrepared[r].rules

C17_Witness ==
    /\ reqPc[1] = "answered"
    /\ reqApplied[1].rules # reqApplied[1].cached
    /\ reqPrepared[2].path = reqPrepared[1].path
    /\ reqPrepared[2].rules = reqApplied[1].cached

C19_FailedReloadKeepsLastGood ==
    \A p \in TemplatePaths :
        lastLoad[p].outcome = "failed" =>
            IF lastLoad[p].goodBefore THEN CacheAsBefore(p) ELSE CacheEmpty(p)

\* C20, as claimed: once a path has been loaded successfully, a call changes
\* its cached set only by loading another successfully parsed set.
C20_NeverNulledOut ==
    \A p \in TemplatePaths :
        (lastLoad[p].everBefore /\ ~CacheAsBefore(p)) =>
            lastLoad[p].outcome = "loaded"

\* C20, amended: once a path has been loaded successfully, a call changes
\* its cached set only by loading another successfully parsed set, or by
\* emptying it when the file is missing or when the reload fails while the
\* recorded modification time is 0.0.
C20_ReplacedOrEmptiedWhenMissing ==
    \A p \in TemplatePaths :
        (lastLoad[p].everBefore /\ ~CacheAsBefore(p)) =>
            \/ lastLoad[p].outcome = "loaded"
            \/ /\ CacheEmpty(p)
               /\ \/ lastLoad[p].outcome = "missing"
                  \/ /\ lastLoad[p].outcome = "failed"
                     /\ lastLoad[p].lastBefore = 0

C20_Witness ==
    /\ lastLoad["with_input"].everBefore
    /\ lastLoad["with_input"].outcome = "missing"
    /\ lastLoad["with_input"].rulesBefore # <<>>
    /\ CacheEmpty("with_input")

\* C21: _load_templates never raises to its caller, whatever the state of
\* the file: no prepare call ends with an exception of the loader.
C21_LoaderNeverRaises ==
    /\ \A p \in TemplatePaths : lastLoad[p].outcome # "raised"
    /\ \A r \in Requests : reqPc[r] # "raised"

\* C22: when the file of a path holds a valid list whose modification time
\* differs from the one recorded for the path, a prepare call that selects
\* the path keeps the blueprints and the rules of that file, and they are
\* the cached set of the path from then on; a prepare call that selects a
\* path leaves the cached set of the other path as it was.
C22_PreparedFromNewContent ==
    [][\A r \in Requests : \A p \in TemplatePaths :
          (reqPc[r] = "new" /\ reqPc'[r] = "prepared" /\ reqPrepared'[r].path = p)
             => /\ (templateFile[p].kind = "list"
                      /\ templateFile[p].mtime # LAST_TEMPLATE_MTIME[p])
                    => /\ reqPrepared'[r].blueprints =
                             SelectSeq(templateFile[p].items,
                                       LAMBDA i : i.type = "prompt")
                       /\ reqPrepared'[r].rules =
                             SelectSeq(templateFile[p].items,
                                       LAMBDA i : i.type = "regex")
                       /\ CACHED_PROMPT_BLUEPRINTS'[p] = reqPrepared'[r].blueprints
                       /\ CACHED_REGEX_RULES'[p] = reqPrepared'[r].rules
                /\ \A q \in TemplatePaths \ {p} :
                       /\ CACHED_PROMPT_BLUEPRINTS'[q] = CACHED_PROMPT_BLUEPRINTS[q]
                       /\ CACHED_REGEX_RULES'[q] = CACHED_REGEX_RULES[q]
                       /\ LAST_TEMPLATE_MTIME'[q] = LAST_TEMPLATE_MTIME[q]]_vars

\* a file that was loaded before has been replaced, and the request that
\* prepared next holds the new rules while the other path has a cached set
C22_Witness ==
    /\ lastLoad["with_input"].everBefore
    /\ ~lastLoad["with_input"].untouched
    /\ lastLoad["with_input"].outcome = "loaded"
    /\ lastLoad["with_input"].rulesBefore # <<>>
    /\ lastLoad["with_input"].rulesBefore # CACHED_REGEX_RULES["with_input"]
    /\ reqPc[1] = "prepared"
    /\ reqPrepared[1].path = "with_input"
    /\ reqPrepared[1].rules = CACHED_REGEX_RULES["with_input"]
    /\ reqPrepared[1].rules # <<>>
    /\ CACHED_REGEX_RULES["without_input"] # <<>>

(***************************************************************************)
(* The message preparer (_prepare_openai_messages of template_handler.py). *)
(* A string is a sequence of tokens: a letter, a blank, the marker         *)
(* {{user_input}}, a dice variable, a random-choice variable, or the       *)
(* newline the merge step inserts.  A content is a string, a list of       *)
(* parts, None, or absent (the message has no "content" key).              *)
(***************************************************************************)
\* longest request
MaxMessages == 2
\* dice and random variables of one request that are resolved independently
MaxDraws == 2

UserInputMarker == "{{user_input}}"
DiceVariable == "{{roll 1d2}}"
RandomVariable == "{{random::h::i}}"
Blank == " "
Newline == "\n"

StrContent(t) == [kind |-> "str", val |-> t]
ListContent(l) == [kind |-> "list", val |-> l]
NoneContent == [kind |-> "none", val |-> <<>>]
AbsentContent == [kind |-> "absent", val |-> <<>>]
TextPart(t) == [type |-> "text", text |-> t]
ImagePart == [type |-> "image_url", text |-> <<>>]
Message(r, c) == [role |-> r, content |-> c]

\* contents of the messages of a request
RequestContents ==
    { StrContent(<<>>), StrContent(<<Blank>>), StrContent(<<"h">>),
      StrContent(<<Blank, "h">>), StrContent(<<DiceVariable>>),
      ListContent(<<>>), ListContent(<<ImagePart>>),
      ListContent(<<ImagePart, TextPart(<<"h">>)>>),
      ListContent(<<TextPart(<<Blank>>), TextPart(<<"h">>)>>),
      NoneContent, AbsentContent }
RequestMessages ==
    {Message(r, c) : r \in {"user", "assistant"}, c \in RequestContents}
MessageLists == UNION {[1..n -> RequestMessages] : n \in 0..MaxMessages}

\* a blueprint of a template: the history placeholder, or a message template
Blueprint(ty, r, c) == [type |-> ty, role |-> r, content |-> c]
Placeholder == Blueprint("api_input_placeholder", "-", AbsentContent)
Template(r, c) == Blueprint("-", r, c)
\* the blueprint lists of the template files
BlueprintLists ==
    { <<>>,
      <<Template("user", StrContent(<<UserInputMarker>>))>>,
      <<Template("system", StrContent(<<"p">>)), Placeholder,
        Template("user", StrContent(<<"p", UserInputMarker, "q",
                                      UserInputMarker>>))>>,
      <<Placeholder, Template("user", StrContent(<<"p">>))>>,
      <<Template("system", StrContent(<<"p", UserInputMarker>>)),
        Placeholder, Placeholder>>,
      <<Template("user", ListContent(<<TextPart(<<UserInputMarker>>)>>)),
        Template("assistant", NoneContent)>>,
      <<Template("user", StrContent(<<UserInputMarker>>)),
        Template("user", StrContent(<<"p">>))>>,
      <<Template("system", StrContent(<<DiceVariable, RandomVariable>>)),
        Template("system", StrContent(<<>>))>> }

\* str.strip(): the blanks at both ends are removed
RECURSIVE LStrip(_)
LStrip(t) == IF t # <<>> /\ Head(t) = Blank THEN LStrip(Tail(t)) ELSE t
RECURSIVE RStrip(_)
RStrip(t) ==
    IF t # <<>> /\ t[Len(t)] = Blank THEN RStrip(SubSeq(t, 1, Len(t) - 1))
    ELSE t
Strip(t) == RStrip(LStrip(t))

\* variant: any non-empty text selects the with-input template
TemplatePathUntrimmed(user_input_content) ==
    IF user_input_content # <<>> THEN "with_input" ELSE "without_input"

\* _get_template_path_for_user_input, lines 43-48
TemplatePathForUserInput(user_input_content) ==
    IF user_input_content # <<>> /\ Strip(user_input_content) # <<>>
    THEN "with_input"
    ELSE "without_input"

\* lines 398-417: the request is split
LastIsUser(msgs) == msgs # <<>> /\ msgs[Len(msgs)].role = "user"
\* original_messages[-1].get("content", ""): an absent content reads as ""
LastUserInput(msgs) ==
    IF LastIsUser(msgs)
    THEN IF msgs[Len(msgs)].content.kind = "absent" THEN StrContent(<<>>)
         ELSE msgs[Len(msgs)].content
    ELSE StrContent(<<>>)
Historic(msgs) ==
    IF LastIsUser(msgs) THEN SubSeq(msgs, 1, Len(msgs) - 1) ELSE msgs
\* lines 406-409: the text of the first part of type text
RECURSIVE FirstText(_)
FirstText(parts) ==
    IF parts = <<>> THEN <<>>
    ELSE IF Head(parts).type = "text" THEN Head(parts).text
         ELSE FirstText(Tail(parts))
LastUserText(msgs) ==
    LET c == LastUserInput(msgs)
    IN IF c.kind = "list" THEN FirstText(c.val)
       ELSE IF c.kind = "str" THEN c.val
            ELSE <<>>

\* the truth value Python gives a content
Truthy(c) == c.kind \in {"str", "list"} /\ c.val # <<>>

\* variant: without blueprints the history alone is taken
NoBlueprintMessagesHistoryOnly(msgs) == Historic(msgs)

\* lines 429-446: the template has no blueprints
NoBlueprintMessages(msgs) ==
    LET hist == Historic(msgs)
        inp == LastUserInput(msgs)
        base == hist \o
                (IF Truthy(inp) THEN <<Message("user", inp)>>
                 ELSE IF hist = <<>> /\ LastIsUser(msgs)
                      THEN <<msgs[Len(msgs)]>>
                      ELSE <<>>)
    IN IF base = <<>> /\ msgs # <<>> THEN msgs ELSE base

HasMarker(t) == \E i \in 1..Len(t) : t[i] = UserInputMarker
\* str.replace("{{user_input}}", by)
RECURSIVE ReplaceMarker(_, _)
ReplaceMarker(t, by) ==
    IF t = <<>> THEN <<>>
    ELSE (IF Head(t) = UserInputMarker THEN by ELSE <<Head(t)>>)
         \o ReplaceMarker(Tail(t), by)
\* str.split("{{user_input}}", 1) of a text that holds the marker
FirstMarker(t) == CHOOSE i \in 1..Len(t) :
                     t[i] = UserInputMarker
                     /\ \A j \in 1..(i - 1) : t[j] # UserInputMarker
BeforeMarker(t) == SubSeq(t, 1, FirstMarker(t) - 1)
AfterMarker(t) == SubSeq(t, FirstMarker(t) + 1, Len(t))

\* lines 460 and 504: a user-role blueprint with a string content that holds
\* the marker
HandlesUserInput(bp) ==
    bp.role = "user" /\ bp.content.kind = "str" /\ HasMarker(bp.content.val)

\* variant: the first occurrence of the marker only is replaced
FromBlueprintFirstOnly(bp, inp, text) ==
    IF HandlesUserInput(bp)
    THEN Message(bp.role, StrContent(
            BeforeMarker(bp.content.val)
            \o (IF inp.kind = "str" THEN inp.val ELSE <<>>)
            \o AfterMarker(bp.content.val)))
    ELSE Message(bp.role, bp.content)

\* lines 457-492: the message a message template gives
FromBlueprint(bp, inp, text) ==
    IF HandlesUserInput(bp)
    THEN IF inp.kind = "list"
         THEN Message(bp.role, ListContent(
                 (IF BeforeMarker(bp.content.val) # <<>>
                  THEN <<TextPart(BeforeMarker(bp.content.val))>> ELSE <<>>)
                 \o inp.val
                 \o (IF AfterMarker(bp.content.val) # <<>>
                     THEN <<TextPart(AfterMarker(bp.content.val))>> ELSE <<>>)))
         ELSE IF inp.kind = "str"
              THEN Message(bp.role,
                           StrContent(ReplaceMarker(bp.content.val, inp.val)))
              ELSE Message(bp.role,
                           StrContent(ReplaceMarker(bp.content.val, <<>>)))
    ELSE IF bp.content.kind = "str"
         THEN Message(bp.role, StrContent(ReplaceMarker(bp.content.val, text)))
         ELSE Message(bp.role, bp.content)

\* variant: the history is inserted at the first placeholder only
RECURSIVE FromBlueprintsOnce(_, _, _, _)
FromBlueprintsOnce(bps, hist, inp, text) ==
    IF bps = <<>> THEN <<>>
    ELSE IF Head(bps).type = "api_input_placeholder"
         THEN hist \o FromBlueprintsOnce(Tail(bps), <<>>, inp, text)
         ELSE <<FromBlueprint(Head(bps), inp, text)>>
              \o FromBlueprintsOnce(Tail(bps), hist, inp, text)

\* lines 449-492: the blueprints in order, the history at each placeholder
RECURSIVE FromBlueprints(_, _, _, _)
FromBlueprints(bps, hist, inp, text) ==
    IF bps = <<>> THEN <<>>
    ELSE (IF Head(bps).type = "api_input_placeholder" THEN hist
          ELSE <<FromBlueprint(Head(bps), inp, text)>>)
         \o FromBlueprints(Tail(bps), hist, inp, text)

\* variant: the live input is never appended
TrailingUserMessageNever(bps, inp) == <<>>

\* lines 501-514: the live input is appended when no blueprint takes it
TrailingUserMessage(bps, inp) ==
    IF (~ \E i \in 1..Len(bps) : HandlesUserInput(bps[i])) /\ Truthy(inp)
    THEN <<Message("user", inp)>>
    ELSE <<>>

\* lines 447-514: the template has blueprints
BlueprintMessages(bps, msgs) ==
    FromBlueprints(bps, Historic(msgs), LastUserInput(msgs), LastUserText(msgs))
    \o TrailingUserMessage(bps, LastUserInput(msgs))

\* step 4, lines 429-514
ProcessedMessages(bps, msgs) ==
    IF bps = <<>> THEN NoBlueprintMessages(msgs)
    ELSE BlueprintMessages(bps, msgs)

\* step 5, lines 516-542.  A dice variable becomes the number rolled and a
\* random-choice variable one of its options; the k-th variable of the list
\* takes the k-th draw, each draw being independent of the others
DrawValues == {"first", "second"}
DrawLists == [1..MaxDraws -> DrawValues]
IsVariable(tok) == tok \in {DiceVariable, RandomVariable}
Resolve(tok, d) ==
    IF tok = DiceVariable THEN (IF d = "first" THEN "1" ELSE "2")
    ELSE (IF d = "first" THEN "h" ELSE "i")
Draw(draws, k) == draws[((k - 1) % MaxDraws) + 1]
VarCount(t) == Cardinality({i \in 1..Len(t) : IsVariable(t[i])})
\* _process_random_choices(_process_dice_rolls(t)), k draws being used up
RECURSIVE ExpandText(_, _, _)
ExpandText(t, draws, k) ==
    IF t = <<>> THEN <<>>
    ELSE IF IsVariable(Head(t))
         THEN <<Resolve(Head(t), Draw(draws, k + 1))>>
              \o ExpandText(Tail(t), draws, k + 1)
         ELSE <<Head(t)>> \o ExpandText(Tail(t), draws, k)
PartVarCount(part) == IF part.type = "text" THEN VarCount(part.text) ELSE 0
RECURSIVE ExpandParts(_, _, _)
ExpandParts(parts, draws, k) ==
    IF parts = <<>> THEN <<>>
    ELSE <<IF Head(parts).type = "text"
           THEN TextPart(ExpandText(Head(parts).text, draws, k))
           ELSE Head(parts)>>
         \o ExpandParts(Tail(parts), draws, k + PartVarCount(Head(parts)))
RECURSIVE PartsVarCount(_)
PartsVarCount(parts) ==
    IF parts = <<>> THEN 0
    ELSE PartVarCount(Head(parts)) + PartsVarCount(Tail(parts))
ContentVarCount(c) ==
    IF c.kind = "str" THEN VarCount(c.val)
    ELSE IF c.kind = "list" THEN PartsVarCount(c.val) ELSE 0
ExpandContent(c, draws, k) ==
    IF c.kind = "str" THEN StrContent(ExpandText(c.val, draws, k))
    ELSE IF c.kind = "list" THEN ListContent(ExpandParts(c.val, draws, k))
         ELSE c
RECURSIVE MessagesVarCount(_)
MessagesVarCount(msgs) ==
    IF msgs = <<>> THEN 0
    ELSE ContentVarCount(Head(msgs).content) + MessagesVarCount(Tail(msgs))
RECURSIVE ExpandMessages(_, _, _)
ExpandMessages(msgs, draws, k) ==
    IF msgs = <<>> THEN <<>>
    ELSE <<Message(Head(msgs).role, ExpandContent(Head(msgs).content, draws, k))>>
         \o ExpandMessages(Tail(msgs), draws,
                           k + ContentVarCount(Head(msgs).content))

\* variant: only None and the empty string are dropped
KeptBySomeContent(m) ==
    ~ (m.content.kind \in {"none", "absent"}
       \/ (m.content.kind = "str" /\ m.content.val = <<>>))

\* step 6, lines 549-556: the messages that are kept
Kept(m) ==
    ~ (m.content.kind \in {"none", "absent"}
       \/ (m.content.kind = "str" /\ m.content.val = <<>>)
       \/ (m.content.kind = "list" /\ m.content.val = <<>>))
FilterMessages(msgs) == SelectSeq(msgs, Kept)

\* variant: string messages are merged whatever their roles
MergeableAnyRole(cur, nxt) ==
    nxt.content.kind = "str" /\ cur.content.kind = "str"

\* lines 575-577
Mergeable(cur, nxt) ==
    nxt.role = cur.role /\ nxt.content.kind = "str" /\ cur.content.kind = "str"

\* step 7, lines 572-584: current_message takes the messages that follow it
RECURSIVE MergeFrom(_, _)
MergeFrom(current_message, rest) ==
    IF rest = <<>> THEN <<current_message>>
    ELSE IF Mergeable(current_message, Head(rest))
         THEN MergeFrom(
                 Message(current_message.role,
                         StrContent(current_message.content.val \o <<Newline>>
                                    \o Head(rest).content.val)),
                 Tail(rest))
         ELSE <<current_message>> \o MergeFrom(Head(rest), Tail(rest))
MergeMessages(msgs) ==
    IF msgs = <<>> THEN <<>> ELSE MergeFrom(Head(msgs), Tail(msgs))

\* variant: the blueprint is worked on in place
TemplateAfterUseShared(bp, inp, text) ==
    IF bp.type = "api_input_placeholder" THEN bp
    ELSE Blueprint(bp.type, bp.role, FromBlueprint(bp, inp, text).content)

\* the cached blueprint after its turn in the loop of line 450: line 451
\* takes a deep copy, and the writes of lines 470-482 go to the copy
TemplateAfterUse(bp, inp, text) == bp

\* the cached list of the selected path after the loop of lines 450-492; the
\* loop of lines 504-507 only reads
BlueprintsAfterUse(bps, msgs) ==
    [i \in 1..Len(bps) |->
        TemplateAfterUse(bps[i], LastUserInput(msgs), LastUserText(msgs))]

\* variant: the variables of the request's messages are expanded in place
RequestAfterUseShared(msgs, draws) == ExpandMessages(msgs, draws, 0)

\* the messages of the request body after the call: they enter
\* processed_messages as deep copies only (lines 430, 433, 438, 445, 452, 466
\* and 514), and steps 5 and 7 write to copies of their own (lines 518, 568
\* and 582)
RequestAfterUse(msgs, draws) == msgs

\* requests that follow the first one carry up to MaxFollowUp messages
MaxFollowUp == 1
FollowUpLists == {l \in MessageLists : Len(l) <= MaxFollowUp}

\* A request is at the door of _prepare_openai_messages.  The template files
\* are as they were when they were loaded, so that _load_templates (line 424)
\* returns at line 97 and lines 425-426 read the cached blueprints.  In this
\* specification lastLoad keeps the blueprints the load produced, and reqPc
\* tells whether a request was served before.
PrepInit ==
    /\ original_messages \in MessageLists
    /\ CACHED_PROMPT_BLUEPRINTS \in [TemplatePaths -> BlueprintLists]
    /\ selected_template_path = "none"
    /\ processed_messages = <<>>
    /\ final_messages_step2 = <<>>
    /\ merged_messages = <<>>
    /\ prepPc = "received"
    /\ templateFile = "none"
    /\ CACHED_REGEX_RULES = "none"
    /\ LAST_TEMPLATE_MTIME = "none"
    /\ logged_not_found_paths = {}
    /\ reqPc = "none"
    /\ reqPrepared = "none"
    /\ reqApplied = "none"
    /\ lastLoad = CACHED_PROMPT_BLUEPRINTS
    /\ touched = {}
    /\ goodCached = {}
    /\ fileChanges = 0
    /\ EmulatorParked
    /\ ProxyParked
    /\ ExpandParked

prepRest == <<templateFile, CACHED_REGEX_RULES, LAST_TEMPLATE_MTIME,
              logged_not_found_paths, reqPc, reqPrepared, reqApplied,
              lastLoad, touched, goodCached, fileChanges, emuVars, proxyVars,
              expVars>>

\* _prepare_openai_messages, lines 387-599.  The draws that no variable of
\* the list takes are not told apart.
PrepareMessages ==
    /\ prepPc = "received"
    /\ \E draws \in DrawLists :
          LET path == TemplatePathForUserInput(LastUserText(original_messages))
              built == ProcessedMessages(CACHED_PROMPT_BLUEPRINTS[path],
                                         original_messages)
              step2 == FilterMessages(ExpandMessages(built, draws, 0))
          IN /\ \A i \in 1..MaxDraws :
                   i > MessagesVarCount(built) => draws[i] = "first"
             /\ selected_template_path' = path
             /\ processed_messages' = built
             /\ final_messages_step2' = step2
             /\ merged_messages' = MergeMessages(step2)
             /\ CACHED_PROMPT_BLUEPRINTS' =
                   [CACHED_PROMPT_BLUEPRINTS EXCEPT ![path] =
                       BlueprintsAfterUse(@, original_messages)]
             /\ original_messages' = RequestAfterUse(original_messages, draws)
    /\ prepPc' = "returned"
    /\ UNCHANGED prepRest

\* main.py lines 250 and 274, openai_client.py lines 133 and 264: the next
\* request body reaches _prepare_openai_messages; the module-level caches
\* are what the calls before it left
NextRequest ==
    /\ prepPc = "returned"
    /\ original_messages' \in FollowUpLists
    /\ selected_template_path' = "none"
    /\ processed_messages' = <<>>
    /\ final_messages_step2' = <<>>
    /\ merged_messages' = <<>>
    /\ prepPc' = "received"
    /\ reqPc' = "served"
    /\ UNCHANGED <<templateFile, CACHED_PROMPT_BLUEPRINTS, CACHED_REGEX_RULES,
                   LAST_TEMPLATE_MTIME, logged_not_found_paths, reqPrepared,
                   reqApplied, lastLoad, touched, goodCached, fileChanges>>
    /\ UNCHANGED <<emuVars, proxyVars, expVars>>

PrepNext == PrepareMessages \/ NextRequest

PrepSpec == PrepInit /\ [][PrepNext]_vars

(***************************************************************************)
(* Properties of the message preparer                                      *)
(***************************************************************************)
\* t is not empty once its blanks are trimmed
NonBlank(t) == \E i \in 1..Len(t) : t[i] # Blank

\* the request has no live input: its last message is not a user message, or
\* the content of that message is empty, None or absent
EmptyInput == ~Truthy(LastUserInput(original_messages))

SelectsByTrimmedText ==
    prepPc = "returned" =>
        (selected_template_path = "with_input"
            <=> NonBlank(LastUserText(original_messages)))

\* C23, as claimed: the with-input template is selected if and only if the
\* text of the trailing user message is non-empty after trimming; and with
\* an empty input and a without-input template that has no blueprints, the
\* returned message list is empty.
C23_SelectsByInputAndEmptyGivesEmpty ==
    /\ SelectsByTrimmedText
    /\ (prepPc = "returned" /\ EmptyInput
           /\ selected_template_path = "without_input"
           /\ CACHED_PROMPT_BLUEPRINTS["without_input"] = <<>>)
        => merged_messages = <<>>

\* C23, amended: the with-input template is selected if and only if the text
\* of the trailing user message is non-empty after trimming; and with an
\* empty input, no message before it and a without-input template that has
\* no blueprints, the returned message list is empty.
C23_SelectsByInputAndLoneEmptyGivesEmpty ==
    /\ SelectsByTrimmedText
    /\ (prepPc = "returned" /\ EmptyInput
           /\ Historic(original_messages) = <<>>
           /\ selected_template_path = "without_input"
           /\ CACHED_PROMPT_BLUEPRINTS["without_input"] = <<>>)
        => merged_messages = <<>>

\* the request of scenario B has been prepared
C23_Witness ==
    /\ prepPc = "returned"
    /\ original_messages = <<Message("user", StrContent(<<>>))>>
    /\ selected_template_path = "without_input"
    /\ CACHED_PROMPT_BLUEPRINTS["without_input"] = <<>>
    /\ CACHED_PROMPT_BLUEPRINTS["with_input"] # <<>>
    /\ merged_messages = <<>>

\* the blueprints of the template the call selected
SelectedBlueprints == CACHED_PROMPT_BLUEPRINTS[selected_template_path]

\* the length of the list the blueprints give with a history of h messages
RECURSIVE BuiltLength(_, _)
BuiltLength(bps, h) ==
    IF bps = <<>> THEN 0
    ELSE (IF Head(bps).type = "api_input_placeholder" THEN h ELSE 1)
         + BuiltLength(Tail(bps), h)

IsInfix(sub, seq) ==
    \E k \in 0..(Len(seq) - Len(sub)) : SubSeq(seq, k + 1, k + Len(sub)) = sub

\* the user message m holds the content c: the text c within its text, or
\* the parts of c among its parts
Carries(m, c) ==
    m.role = "user" /\ m.content.kind = c.kind /\ IsInfix(c.val, m.content.val)

\* the live input of the request, once its variables are expanded
ExpandedInputs ==
    {ExpandContent(LastUserInput(original_messages), d, k) :
        d \in DrawLists, k \in 0..(MaxDraws - 1)}

\* a user-role blueprint with a string content that holds the marker
SomeBlueprintTakesInput ==
    \E i \in 1..Len(SelectedBlueprints) :
        /\ SelectedBlueprints[i].role = "user"
        /\ SelectedBlueprints[i].content.kind = "str"
        /\ \E j \in 1..Len(SelectedBlueprints[i].content.val) :
               SelectedBlueprints[i].content.val[j] = UserInputMarker

\* C24: when the request ends with a user message whose content is a
\* non-empty string or a non-empty list and the selected template has
\* blueprints, the list built from the blueprints holds the live input (and
\* the returned list holds it with its variables expanded): in the message of
\* a user-role blueprint that holds {{user_input}}, or, exactly when no
\* user-role string blueprint holds the marker, as one more message at the
\* end, of role user and with the original content.
C24_LiveInputPresent ==
    (prepPc = "returned" /\ LastIsUser(original_messages)
       /\ Truthy(LastUserInput(original_messages))
       /\ SelectedBlueprints # <<>>)
    => LET inp == LastUserInput(original_messages)
           n == Len(processed_messages)
           built == BuiltLength(SelectedBlueprints,
                                Len(Historic(original_messages)))
       IN /\ \E j \in 1..n : Carries(processed_messages[j], inp)
          /\ \E j \in 1..Len(merged_messages) :
                \E c \in ExpandedInputs : Carries(merged_messages[j], c)
          /\ IF SomeBlueprintTakesInput
             THEN n = built
             ELSE n = built + 1 /\ processed_messages[n] = Message("user", inp)

\* a structured input was appended after the blueprints, which hold no marker
C24_Witness ==
    /\ prepPc = "returned"
    /\ Len(original_messages) = 2
    /\ LastUserInput(original_messages) =
          ListContent(<<ImagePart, TextPart(<<"h">>)>>)
    /\ SelectedBlueprints =
          <<Placeholder, Template("user", StrContent(<<"p">>))>>
    /\ Len(processed_messages) = 3
    /\ processed_messages[3] =
          Message("user", ListContent(<<ImagePart, TextPart(<<"h">>)>>))

\* the place in processed_messages of the message blueprint i gives
PositionOf(i) ==
    BuiltLength(SubSeq(SelectedBlueprints, 1, i - 1),
                Len(Historic(original_messages))) + 1

\* t holds no dice or random-choice variable
NoVariable(t) == \A i \in 1..Len(t) : t[i] \notin {DiceVariable, RandomVariable}

\* C25: with a with-input template that consists of the user blueprint
\* {{user_input}} alone and a request whose only message is a user message
\* with a plain text s, not blank and without dice or random variable, the
\* returned list is the one message of role user and content s; and for
\* every plain-text input, the message of a user-role string blueprint is
\* the text of the blueprint with every {{user_input}} replaced by the input.
C25_UserInputSubstituted ==
    prepPc = "returned" =>
       /\ \A s \in {c.val : c \in {x \in RequestContents : x.kind = "str"}} :
             (/\ NonBlank(s) /\ NoVariable(s)
              /\ original_messages = <<Message("user", StrContent(s))>>
              /\ CACHED_PROMPT_BLUEPRINTS["with_input"] =
                    <<Template("user", StrContent(<<UserInputMarker>>))>>)
             => merged_messages = <<Message("user", StrContent(s))>>
       /\ (LastIsUser(original_messages)
             /\ LastUserInput(original_messages).kind = "str")
          => \A i \in 1..Len(SelectedBlueprints) :
                (/\ SelectedBlueprints[i].type # "api_input_placeholder"
                 /\ SelectedBlueprints[i].role = "user"
                 /\ SelectedBlueprints[i].content.kind = "str")
                => /\ processed_messages[PositionOf(i)].role = "user"
                   /\ processed_messages[PositionOf(i)].content =
                         StrContent(ReplaceMarker(
                            SelectedBlueprints[i].content.val,
                            LastUserInput(original_messages).val))
                   /\ ~HasMarker(processed_messages[PositionOf(i)].content.val)

\* a blueprint with two markers and text around them has taken the input
\* behind a history of one message
C25_Witness ==
    /\ prepPc = "returned"
    /\ Len(original_messages) = 2
    /\ LastUserInput(original_messages) = StrContent(<<Blank, "h">>)
    /\ Len(SelectedBlueprints) = 3
    /\ SelectedBlueprints[3] =
          Template("user", StrContent(<<"p", UserInputMarker, "q",
                                        UserInputMarker>>))
    /\ processed_messages[3] =
          Message("user", StrContent(<<"p", Blank, "h", "q", Blank, "h">>))

\* the request of scenario A has been prepared
C25_ScenarioA ==
    /\ prepPc = "returned"
    /\ original_messages = <<Message("user", StrContent(<<"h">>))>>
    /\ SelectedBlueprints = <<Template("user", StrContent(<<UserInputMarker>>))>>
    /\ merged_messages = <<Message("user", StrContent(<<"h">>))>>

\* C26: when the selected template has blueprints, the list built before the
\* variables are expanded follows the order of the blueprints: a message
\* template gives one message, of its role, at its place, a placeholder
\* gives the whole history (every message but a trailing user message, in
\* the order of the request) at its place, and nothing else is in the list
\* but the live input that lines 508-514 may append; with no placeholder the
\* list has one message per blueprint and no message of the history.
C26_HistoryAtPlaceholders ==
    (prepPc = "returned" /\ SelectedBlueprints # <<>>)
    => LET hist == IF original_messages # <<>>
                      /\ original_messages[Len(original_messages)].role = "user"
                   THEN SubSeq(original_messages, 1, Len(original_messages) - 1)
                   ELSE original_messages
           built == BuiltLength(SelectedBlueprints, Len(hist))
       IN /\ Len(processed_messages) \in {built, built + 1}
          /\ \A i \in 1..Len(SelectedBlueprints) :
                IF SelectedBlueprints[i].type = "api_input_placeholder"
                THEN SubSeq(processed_messages, PositionOf(i),
                            PositionOf(i) + Len(hist) - 1) = hist
                ELSE processed_messages[PositionOf(i)].role =
                        SelectedBlueprints[i].role
          /\ (\A i \in 1..Len(SelectedBlueprints) :
                 SelectedBlueprints[i].type # "api_input_placeholder")
             => built = Len(SelectedBlueprints)

\* a history of one message stands at both placeholders of the template
C26_Witness ==
    /\ prepPc = "returned"
    /\ Len(original_messages) = 2
    /\ original_messages[1] = Message("assistant", StrContent(<<"h">>))
    /\ original_messages[2] = Message("user", StrContent(<<"h">>))
    /\ Len(SelectedBlueprints) = 3
    /\ SelectedBlueprints[2] = Placeholder
    /\ SelectedBlueprints[3] = Placeholder
    /\ processed_messages[2] = original_messages[1]
    /\ processed_messages[3] = original_messages[1]
    /\ Len(processed_messages) = 4

\* C27: no message of the returned list has a content that is None, absent,
\* the empty string or an empty list.
C27_NoEmptyContent ==
    prepPc = "returned" =>
        \A i \in 1..Len(merged_messages) :
            /\ merged_messages[i].content.kind \in {"str", "list"}
            /\ merged_messages[i].content.val # <<>>

\* messages with None, an empty string and an empty list were dropped
C27_Witness ==
    /\ prepPc = "returned"
    /\ original_messages = <<Message("assistant", ListContent(<<>>)),
                             Message("user", StrContent(<<"h">>))>>
    /\ SelectedBlueprints =
          <<Template("system", StrContent(<<"p", UserInputMarker>>)),
            Placeholder, Placeholder>>
    /\ Len(processed_messages) = 4
    /\ Len(merged_messages) = 2

\* the messages a returned message was merged from: a string content is
\* split at the newlines of the merge step
RECURSIVE SplitLines(_, _)
SplitLines(t, line) ==
    IF t = <<>> THEN <<line>>
    ELSE IF Head(t) = Newline THEN <<line>> \o SplitLines(Tail(t), <<>>)
         ELSE SplitLines(Tail(t), Append(line, Head(t)))
RECURSIVE Unmerged(_)
Unmerged(msgs) ==
    IF msgs = <<>> THEN <<>>
    ELSE (IF Head(msgs).content.kind = "str"
          THEN [i \in 1..Len(SplitLines(Head(msgs).content.val, <<>>)) |->
                  Message(Head(msgs).role,
                          StrContent(SplitLines(Head(msgs).content.val, <<>>)[i]))]
          ELSE <<Head(msgs)>>)
         \o Unmerged(Tail(msgs))

\* C28: no two adjacent messages of the returned list have the same role and
\* string contents both; the returned list is the filtered list with every
\* run of adjacent same-role string messages made one message, their
\* contents joined by a newline in their order, and every message with a
\* list content left as it is.
C28_AdjacentStringsMerged ==
    prepPc = "returned" =>
       /\ \A i \in 1..(Len(merged_messages) - 1) :
             ~ (/\ merged_messages[i].role = merged_messages[i + 1].role
                /\ merged_messages[i].content.kind = "str"
                /\ merged_messages[i + 1].content.kind = "str")
       /\ Unmerged(merged_messages) = final_messages_step2

\* two user strings were merged and a user list next to them was not
C28_Witness ==
    /\ prepPc = "returned"
    /\ Len(final_messages_step2) = 3
    /\ \A i \in 1..3 : final_messages_step2[i].role = "user"
    /\ final_messages_step2[1].content.kind = "str"
    /\ final_messages_step2[2].content.kind = "str"
    /\ final_messages_step2[3].content.kind = "list"
    /\ Len(merged_messages) = 2
    /\ merged_messages[1].content =
          StrContent(final_messages_step2[1].content.val \o <<Newline>>
                     \o final_messages_step2[2].content.val)

\* the request is as a returned list is: no content is None, absent or
\* empty, and no two adjacent messages have the same role and string contents
RequestIsNormal ==
    /\ \A i \in 1..Len(original_messages) :
          /\ original_messages[i].content.kind \in {"str", "list"}
          /\ original_messages[i].content.val # <<>>
    /\ \A i \in 1..(Len(original_messages) - 1) :
          ~ (/\ original_messages[i].role = original_messages[i + 1].role
             /\ original_messages[i].content.kind = "str"
             /\ original_messages[i + 1].content.kind = "str")
RequestHasNoVariable ==
    \A i \in 1..Len(original_messages) :
        /\ original_messages[i].content.kind = "str"
              => NoVariable(original_messages[i].content.val)
        /\ original_messages[i].content.kind = "list"
              => \A j \in 1..Len(original_messages[i].content.val) :
                    NoVariable(original_messages[i].content.val[j].text)

\* C29: for a request whose messages have no empty content, no two adjacent
\* same-role string messages and no dice or random variable, and a selected
\* template without blueprints, the returned list has the roles and the
\* contents of the request, in the same order.
C29_NormalRequestUnchanged ==
    (prepPc = "returned" /\ RequestIsNormal /\ RequestHasNoVariable
       /\ SelectedBlueprints = <<>>)
    => merged_messages = original_messages

\* a request of two messages that ends with a structured user message came
\* back as it was
C29_Witness ==
    /\ prepPc = "returned"
    /\ SelectedBlueprints = <<>>
    /\ original_messages =
          <<Message("assistant", StrContent(<<"h">>)),
            Message("user", ListContent(<<ImagePart, TextPart(<<"h">>)>>))>>
    /\ merged_messages = original_messages

(***************************************************************************)
(* The rule chain of the template engine, on the texts the emulator hands  *)
(* to _apply_regex_rules_to_content in ProxySpec                           *)
(***************************************************************************)
\* the emulator has applied the selected rules to the text of an assistant
\* message
EmulatorApplied ==
    /\ pxPc = "fs_closed"
    /\ response.status = 200
    /\ response.role = "assistant"
    /\ response.ckind = "str"

\* C30: for every text and all rules r1, r2, apply(text, <<r1, r2>>) is
\* apply(apply(text, <<r1>>), <<r2>>); more generally a rule list cut at any
\* place gives the same text applied in one call or in two, the second call
\* working on the text the first one returned.
C30_RulesChain ==
    EmulatorApplied =>
        \A k \in 1..(Len(selected_regex_rules) - 1) :
            sse[2].text =
                ApplyTH(ApplyTH(response.content,
                                SubSeq(selected_regex_rules, 1, k)),
                        SubSeq(selected_regex_rules, k + 1,
                               Len(selected_regex_rules)))

\* two rules were applied, the second one to the text the first one gave:
\* the result is not what either rule makes of the text alone
C30_Witness ==
    /\ EmulatorApplied
    /\ Len(selected_regex_rules) = 2
    /\ response.content # <<>>
    /\ ApplyTH(response.content, <<selected_regex_rules[1]>>) # response.content
    /\ sse[2].text # ApplyTH(response.content, <<selected_regex_rules[1]>>)
    /\ sse[2].text # ApplyTH(response.content, <<selected_regex_rules[2]>>)
    /\ selected_regex_rules[1] # selected_regex_rules[2]

\* the rules of the list that do not fail, in their order
WithoutFailing(rules) == SelectSeq(rules, LAMBDA r : ~RuleFails(r))

\* the emulator went through its frames without an error frame
NoErrorFrame == \A i \in 1..Len(sse) : sse[i].kind \notin ErrorKinds

\* C31: a rule that fails (a replace rule whose pattern does not compile, a
\* json_payload rule whose replace field is malformed JSON) leaves the working
\* text as it is and the later rules are still applied: the text returned is
\* the one the list without its failing rules gives, and the call returns
\* instead of raising (the emulator goes on to its content frame and emits no
\* error frame).
C31_FailingRuleSkipped ==
    EmulatorApplied =>
        /\ sse[2].kind = "content"
        /\ sse[2].text =
               ApplyTH(response.content, WithoutFailing(selected_regex_rules))
        /\ NoErrorFrame

\* the first of two rules fails and the second one still changes the text
C31_Witness ==
    /\ EmulatorApplied
    /\ Len(selected_regex_rules) = 2
    /\ RuleFails(selected_regex_rules[1])
    /\ ~RuleFails(selected_regex_rules[2])
    /\ sse[2].text # response.content
    /\ sse[2].text = ApplyTH(response.content, <<selected_regex_rules[2]>>)

\* the last rule of the list, and the working text it is applied to
LastRule == selected_regex_rules[Len(selected_regex_rules)]

WorkingText ==
    ApplyTH(response.content,
            SubSeq(selected_regex_rules, 1, Len(selected_regex_rules) - 1))

\* the replace field of the rule is a JSON document with a payload key
HasPayload(rule) ==
    /\ rule.action = "json_payload"
    /\ JsonLoads(rule.replace).kind = "dict"
    /\ \E i \in 1..Len(JsonLoads(rule.replace).pairs) :
           JsonLoads(rule.replace).pairs[i].k = "\"payload\""

PayloadOf(rule) == GetKey(JsonLoads(rule.replace).pairs, "\"payload\"")

\* the text is the JSON of object o with tool_code_interpreter_output set to p
\* and every other key as in o
InjectedInto(text, o, p) ==
    /\ JsonLoads(text).kind = "dict"
    /\ JsonLoads(text).pairs = SetKey(o, "\"tool_code_interpreter_output\"", p)
    /\ \A i \in 1..Len(o) :
           o[i].k # "\"tool_code_interpreter_output\"" =>
               GetKey(JsonLoads(text).pairs, o[i].k) = o[i].v

Injected(rule) ==
    IF JsonLoads(WorkingText).kind = "dict"
    THEN InjectedInto(sse[2].text, JsonLoads(WorkingText).pairs, PayloadOf(rule))
    ELSE JsonLoads(WorkingText).kind = "error" =>
             InjectedInto(sse[2].text, <<>>, PayloadOf(rule))

\* C32 as stated: a json_payload rule whose replace field is a JSON document
\* with payload P turns a working text that is a JSON object O into the JSON
\* of O with tool_code_interpreter_output set to P, and a working text that is
\* not JSON into the object with that key only, whatever P is.
C32_PayloadInjected ==
    (EmulatorApplied /\ selected_regex_rules # <<>> /\ HasPayload(LastRule))
        => Injected(LastRule)

\* C32, amended: the same for a payload other than null; a rule whose payload
\* is null leaves the working text as it is.
C32_NonNullPayloadInjected ==
    (EmulatorApplied /\ selected_regex_rules # <<>> /\ HasPayload(LastRule))
        => IF PayloadOf(LastRule) = "null"
           THEN sse[2].text = WorkingText
           ELSE Injected(LastRule)

\* {"a":1} with payload "X" gives the object with a and the new key
C32_Witness ==
    /\ EmulatorApplied
    /\ selected_regex_rules # <<>>
    /\ HasPayload(LastRule)
    /\ PayloadOf(LastRule) = "\"X\""
    /\ WorkingText = ObjectA
    /\ JsonLoads(sse[2].text).pairs =
           <<[k |-> "\"a\"", v |-> "1"],
             [k |-> "\"tool_code_interpreter_output\"", v |-> "\"X\""]>>

\* a working text that is not JSON, left by an earlier rule, gives the object
\* with the new key only
C32_UnparsedText ==
    /\ EmulatorApplied
    /\ Len(selected_regex_rules) = 2
    /\ HasPayload(LastRule)
    /\ JsonLoads(WorkingText).kind = "error"
    /\ WorkingText # response.content
    /\ JsonLoads(sse[2].text).pairs =
           <<[k |-> "\"tool_code_interpreter_output\"", v |-> "\"X\""]>>

(***************************************************************************)
(* The variable expander (src/src/template_handler.py, lines 176-267) on   *)
(* one string content, as _prepare_openai_messages calls it (lines         *)
(* 522-526): _process_dice_rolls, then _process_random_choices on what it  *)
(* returned.  A text is a sequence of pieces: plain text, a dice           *)
(* expression {{roll XdY}}, a choice expression {{random::o1::o2}} given   *)
(* by the options its text splits into at "::", and what the two          *)
(* functions put in their place.  re.sub goes through the matches from     *)
(* left to right and calls the replacement function on each one.           *)
(***************************************************************************)
\* most dice of an expression
MaxDice == 3
\* most sides of a die
MaxSides == 4
\* most options of a choice expression
MaxOptions == 2

Tok(k, x, y, o, v) == [kind |-> k, x |-> x, y |-> y, opts |-> o, val |-> v]
Lit(s) == Tok("text", 0, 0, <<>>, s)
Roll(x, y) == Tok("roll", x, y, <<>>, "")
Random(opts) == Tok("random", 0, 0, opts, "")
\* str(total_roll)
Num(n) == Tok("number", n, 0, <<>>, "")
\* "{roll XdY - 无效的骰子参数}"
InvalidDice(x, y) == Tok("invalid_dice", x, y, <<>>, "")
\* "{{random:: - 无选项}}"
NoOptions == Tok("no_options", 0, 0, <<>>, "")
\* "{{random:: - 过滤后无有效选项}}"
NoValidOptions == Tok("no_valid_options", 0, 0, <<>>, "")

OptionTexts == {"", "h", "i"}
OptionLists == UNION {[1..n -> OptionTexts] : n \in 1..MaxOptions}
ExpandTokens ==
    {Lit("h")}
    \cup {Roll(x, y) : x \in 0..MaxDice, y \in 0..MaxSides}
    \cup {Random(o) : o \in OptionLists}
\* the strings handed to the expander: one piece, or two
ExpandTexts ==
    {<<t>> : t \in ExpandTokens}
    \cup {<<t, u>> : t \in ExpandTokens, u \in ExpandTokens}

\* variant: a die may show nothing
RandIntFromZero(a, b) == 0..b

\* random.randint(a, b): every integer from a to b
RandInt(a, b) == a..b

RECURSIVE SumOf(_, _)
SumOf(rolls, n) == IF n = 0 THEN 0 ELSE rolls[n] + SumOf(rolls, n - 1)

\* lines 194-215, replace_dice_roll(match): the strings it may return
ReplaceDiceRoll(match) ==
    LET num_dice == match.x
        num_sides == match.y
    IN  IF num_dice <= 0 \/ num_sides <= 0
        THEN {InvalidDice(num_dice, num_sides)}
        ELSE {Num(SumOf(rolls, num_dice)) :
                  rolls \in [1..num_dice -> RandInt(1, num_sides)]}

\* variant: the first option is always the one taken
RandomChoiceAlwaysFirst(options) == {options[1]}

\* random.choice(options): any element of the list
RandomChoice(options) == {options[i] : i \in 1..Len(options)}

\* line 252: [opt for opt in options if opt]
ValidOptions(options) == SelectSeq(options, LAMBDA opt : opt # "")

\* lines 239-263, replace_random_choice(match): the strings it may return;
\* options_str is empty when the text splits into one empty option
ReplaceRandomChoice(match) ==
    IF match.opts = <<"">>
    THEN {NoOptions}
    ELSE IF ValidOptions(match.opts) = <<>>
         THEN {NoValidOptions}
         ELSE {Lit(chosen) : chosen \in RandomChoice(ValidOptions(match.opts))}

\* re.sub: the place of the first match after position pos, 0 when there is
\* none
NextMatch(text, pos, kind) ==
    IF \E j \in (pos + 1)..Len(text) : text[j].kind = kind
    THEN CHOOSE j \in (pos + 1)..Len(text) :
             /\ text[j].kind = kind
             /\ \A i \in (pos + 1)..(j - 1) : text[i].kind # kind
    ELSE 0

ExpandInit ==
    /\ content_val \in ExpandTexts
    /\ content_after_dice = <<>>
    /\ content_after_random = <<>>
    /\ matchPos = 0
    /\ replaced = <<>>
    /\ expPc = "dice"
    /\ EmulatorParked
    /\ ProxyParked
    /\ StoreParked
    /\ PrepParked

expRest == <<emuVars, proxyVars, storeVars, prepVars>>

\* line 219: re.sub finds the next dice expression and puts what
\* replace_dice_roll returns in its place
DiceMatch ==
    /\ expPc = "dice"
    /\ NextMatch(content_val, matchPos, "roll") # 0
    /\ LET j == NextMatch(content_val, matchPos, "roll") IN
       /\ \E out \in ReplaceDiceRoll(content_val[j]) :
              replaced' = replaced \o SubSeq(content_val, matchPos + 1, j - 1)
                                   \o <<out>>
       /\ matchPos' = j
    /\ UNCHANGED <<content_val, content_after_dice, content_after_random, expPc>>
    /\ UNCHANGED expRest

\* line 219: no dice expression is left, _process_dice_rolls returns
DiceReturn ==
    /\ expPc = "dice"
    /\ NextMatch(content_val, matchPos, "roll") = 0
    /\ content_after_dice' =
           replaced \o SubSeq(content_val, matchPos + 1, Len(content_val))
    /\ matchPos' = 0
    /\ replaced' = <<>>
    /\ expPc' = "random"
    /\ UNCHANGED <<content_val, content_after_random>>
    /\ UNCHANGED expRest

\* line 267: re.sub finds the next choice expression and puts what
\* replace_random_choice returns in its place
RandomMatch ==
    /\ expPc = "random"
    /\ NextMatch(content_after_dice, matchPos, "random") # 0
    /\ LET j == NextMatch(content_after_dice, matchPos, "random") IN
       /\ \E out \in ReplaceRandomChoice(content_after_dice[j]) :
              replaced' = replaced
                          \o SubSeq(content_after_dice, matchPos + 1, j - 1)
                          \o <<out>>
       /\ matchPos' = j
    /\ UNCHANGED <<content_val, content_after_dice, content_after_random, expPc>>
    /\ UNCHANGED expRest

\* line 267: no choice expression is left, _process_random_choices returns
RandomReturn ==
    /\ expPc = "random"
    /\ NextMatch(content_after_dice, matchPos, "random") = 0
    /\ content_after_random' =
           replaced \o SubSeq(content_after_dice, matchPos + 1,
                              Len(content_after_dice))
    /\ matchPos' = 0
    /\ replaced' = <<>>
    /\ expPc' = "done"
    /\ UNCHANGED <<content_val, content_after_dice>>
    /\ UNCHANGED expRest

ExpandNext ==
    \/ DiceMatch
    \/ DiceReturn
    \/ RandomMatch
    \/ RandomReturn

ExpandSpec == ExpandInit /\ [][ExpandNext]_vars

(***************************************************************************)
(* Properties of the variable expander                                     *)
(***************************************************************************)
DiceReturned == expPc \in {"random", "done"}

\* C33: once _process_dice_rolls has returned, every dice expression
\* {{roll XdY}} of the text with X >= 1 and Y >= 2 stands replaced by an
\* integer from X to X*Y, whatever the dice showed; an expression with X = 0
\* or Y = 0 stands replaced by the error marker, and the other pieces of the
\* text, the expressions after it included, are treated as without it.
C33_DiceInRange ==
    DiceReturned =>
        /\ Len(content_after_dice) = Len(content_val)
        /\ \A i \in 1..Len(content_val) :
              LET m == content_val[i]
                  out == content_after_dice[i]
              IN  IF m.kind # "roll"
                  THEN out = m
                  ELSE /\ (m.x >= 1 /\ m.y >= 2) =>
                              /\ out.kind = "number"
                              /\ m.x <= out.x
                              /\ out.x <= m.x * m.y
                       /\ (m.x = 0 \/ m.y = 0) => out = InvalidDice(m.x, m.y)

\* an expression without dice comes first, and the expression after it was
\* still rolled, with every die on its highest side
C33_Witness ==
    /\ DiceReturned
    /\ Len(content_val) = 2
    /\ content_val[1].kind = "roll" /\ content_val[1].x = 0
    /\ content_val[2] = Roll(MaxDice, MaxSides)
    /\ content_after_dice[1].kind = "invalid_dice"
    /\ content_after_dice[2] = Num(MaxDice * MaxSides)

\* the options of a choice expression that are not empty
Listed(m) == {m.opts[k] : k \in {n \in 1..Len(m.opts) : m.opts[n] # ""}}

\* re.sub is at a choice expression and replaces it by option o
Chooses(o) == RandomMatch /\ replaced'[Len(replaced')] = Lit(o)

\* C34: a choice expression with at least one non-empty option is replaced by
\* one of its non-empty options, whatever the draw; and when re.sub is at
\* such an expression, each of its non-empty options can be the one taken.
C34_ChoiceIsListedOption ==
    /\ expPc = "done" =>
          \A i \in 1..Len(content_after_dice) :
              LET m == content_after_dice[i] IN
              (m.kind = "random" /\ Listed(m) # {}) =>
                  /\ content_after_random[i].kind = "text"
                  /\ content_after_random[i].val \in Listed(m)
    /\ (expPc = "random"
             /\ NextMatch(content_after_dice, matchPos, "random") # 0) =>
          \A o \in Listed(content_after_dice[
                       NextMatch(content_after_dice, matchPos, "random")]) :
              ENABLED Chooses(o)

\* two expressions of two options each were replaced, each by its second
\* option
C34_Witness ==
    /\ expPc = "done"
    /\ content_after_dice = <<Random(<<"h", "i">>), Random(<<"i", "h">>)>>
    /\ content_after_random = <<Lit("i"), Lit("h")>>

(***************************************************************************)
(* The delta frames of the emulator for a chat completion, in ProxySpec    *)
(***************************************************************************)
HasFrame(k) == \E i \in 1..Len(sse) : sse[i].kind = k
FrameOf(k) == sse[CHOOSE i \in 1..Len(sse) : sse[i].kind = k]

\* the emulator has gone through a chat completion
EmulatedCompletion == pxPc = "fs_closed" /\ response.status = 200

\* C35: for a chat completion the emulator emits a role frame exactly when
\* the message has a role, a content frame exactly when the content is not
\* null (an empty string gives a frame; a message without a content key has
\* no content), a finish frame with an empty delta exactly when there is a
\* finish reason, and the content frame carries the content of the message
\* as it is unless the role is assistant.
C35_DeltaFramesAsPresent ==
    EmulatedCompletion =>
        /\ HasFrame("role") <=> response.role # "absent"
        /\ HasFrame("content") <=> response.ckind = "str"
        /\ HasFrame("finish") <=> response.finish
        /\ HasFrame("finish") => FrameOf("finish").text = <<>>
        /\ (HasFrame("content") /\ FrameOf("content").text # response.content)
               => response.role = "assistant"

(***************************************************************************)
(* The emulator on results that are not chat completions (Spec)            *)
(***************************************************************************)
\* C36: when the upstream task resolves with a result that is not a
\* well-formed chat completion with at least one choice (not an object, no
\* choices, empty choices, a first choice of unexpected shape), the emulator
\* emits the raw result as exactly one data frame, with no error frame and no
\* delta frame, and then [DONE].
C36_MalformedResultRelayedRaw ==
    (consumer = "ended" /\ non_stream_task = "result"
        /\ taskPlan \in MalformedResults) =>
        /\ Payload = <<Frame("raw", 0)>>
        /\ ErrorCount = 0
        /\ frames[Len(frames)] = DoneFrame
        /\ frames[Len(frames) - 1] = Frame("raw", 0)

(***************************************************************************)
(* The result slot shared by the main loop and the background unit (Spec)  *)
(***************************************************************************)
\* a step stores something in _wrapped_task_result or _wrapped_task_exception
SlotWritten ==
    \/ wrapped_task_result' # wrapped_task_result
    \/ wrapped_task_exception' # wrapped_task_exception

\* the main loop leaves the heartbeat loop for the body of lines 135-228,
\* which reads the two slots
SlotRead == ~PastLoop /\ PastLoop' /\ pendingExc' = "none"

\* C37: in every interleaving of the main loop and the background unit, when
\* the completion event is set the background unit has stored the outcome of
\* the task (its value, its exception, or the cancellation) in the slot; the
\* slot is stored in once, in the step that sets the event, and the main loop
\* reads it only with the event set.
C37_OutcomeWrittenBeforeSignal ==
    /\ [](task_completion_event =>
            /\ background_executor_task = "done"
            /\ IF wrapped_task_exception = PyNone
               THEN /\ non_stream_task = "result"
                    /\ wrapped_task_result =
                           (IF taskPlan.shape = "none" THEN PyNone ELSE taskPlan)
               ELSE /\ wrapped_task_result = PyNone
                    /\ wrapped_task_exception \in {taskPlan, CancelledError})
    /\ [][SlotWritten =>
            /\ ~task_completion_event
            /\ task_completion_event'
            /\ background_executor_task # "done"
            /\ background_executor_task' = "done"]_vars
    /\ [][SlotRead => task_completion_event]_vars

\* the background unit waited for the task through a heartbeat, stored its
\* value, and the main loop is emitting the frames of that value
C37_Witness ==
    /\ genPc = "emitting"
    /\ KindCount("heartbeat") >= 1
    /\ task_completion_event
    /\ wrapped_task_result = taskPlan
    /\ taskPlan \in WellFormedResults
    /\ frames[Len(frames)].kind = "role"

(***************************************************************************)
(* C38.  Blueprints and rules of one load.  _load_templates builds both    *)
(* lists from one yaml.safe_load and stores them at lines 149-150 with no  *)
(* await in between; _prepare_openai_messages reads both entries at lines  *)
(* 425-426 right after the call of line 424, and is itself synchronous.    *)
(***************************************************************************)
\* the pair of lists is the one a single parse of a template list gives; the
\* pair of an absent or unusable file is the pair of the empty list
OfOneLoad(b, r) ==
    \E l \in TemplateLists : b = ParseBlueprints(l) /\ r = ParseRules(l)

HasPrepared(r) == reqPc[r] \in {"prepared", "answered"}

\* C38: under every interleaving of prepare calls, answers and file changes,
\* the blueprints and the rules a prepare call has taken are those of one
\* load of the file, and so is the cache entry of every path at any time.
C38_BlueprintsAndRulesOfOneLoad ==
    /\ \A r \in Requests :
          HasPrepared(r) =>
             OfOneLoad(reqPrepared[r].blueprints, reqPrepared[r].rules)
    /\ \A p \in TemplatePaths :
          OfOneLoad(CACHED_PROMPT_BLUEPRINTS[p], CACHED_REGEX_RULES[p])

\* two requests of one path hold the lists of two versions of the file, which
\* differ in the blueprints and in the rules: the file was rewritten and
\* loaded again between the two prepare calls
C38_Witness ==
    \E r1, r2 \in Requests :
       /\ HasPrepared(r1) /\ HasPrepared(r2)
       /\ reqPrepared[r1].path = reqPrepared[r2].path
       /\ reqPrepared[r1].blueprints # <<>> /\ reqPrepared[r1].rules # <<>>
       /\ reqPrepared[r2].blueprints # <<>> /\ reqPrepared[r2].rules # <<>>
       /\ reqPrepared[r1].blueprints # reqPrepared[r2].blueprints
       /\ reqPrepared[r1].rules # reqPrepared[r2].rules
       /\ lastLoad[reqPrepared[r2].path].outcome = "loaded"
       /\ lastLoad[reqPrepared[r2].path].blueprintsBefore
             = reqPrepared[r1].blueprints

(***************************************************************************)
(* C39.  _prepare_openai_messages leaves the caches and the request body   *)
(* as they were.                                                           *)
(***************************************************************************)
PrepareReturns == prepPc = "received" /\ prepPc' = "returned"

\* what a first request with these messages gets from the blueprints the
\* load produced
FreshOutputs(msgs) ==
    {MergeMessages(FilterMessages(ExpandMessages(
        ProcessedMessages(lastLoad[TemplatePathForUserInput(LastUserText(msgs))],
                          msgs), draws, 0))) : draws \in DrawLists}

RealStreamRelayed ==
    upstream.kind = "stream" /\ pxPc \in {"rs_relay", "rs_closed", "rs_raised"}

\* C40: the data events relayed do not depend on how the upstream text is
\* split into chunks: the upstream data lines read so far have been relayed
\* complete, once and in order, also when a chunk boundary falls inside a
\* line, and a stream that ended with [DONE] is closed by the one [DONE]
\* frame, after which nothing is relayed.
C40_RelayIndependentOfChunks ==
    RealStreamRelayed =>
       /\ Len(sse) >= upPos
       /\ \A i \in 1..upPos :
             sse[i] = TextFrame(upstream.lines[i].kind, 0, upstream.lines[i].text)
       /\ (pxPc = "rs_closed" /\ upstream.ending = "done") =>
             /\ sse # <<>>
             /\ sse[Len(sse)].kind = "DONE"
             /\ \A i \in 1..(Len(sse) - 1) : sse[i].kind # "DONE"

\* the same with every line arriving whole within one chunk
C40_WholeLinesRelayed ==
    (RealStreamRelayed /\ upstream.cut = NoCut) =>
       /\ Len(sse) >= upPos
       /\ \A i \in 1..upPos :
             sse[i] = TextFrame(upstream.lines[i].kind, 0, upstream.lines[i].text)
       /\ (pxPc = "rs_closed" /\ upstream.ending = "done") =>
             /\ sse # <<>>
             /\ sse[Len(sse)].kind = "DONE"
             /\ \A i \in 1..(Len(sse) - 1) : sse[i].kind # "DONE"

====
